---------------------------- MODULE Spec2Model ----------------------------
(***************************************************************************)
(* A model of src/src/main/project.ts (class Project): the supervision of  *)
(* one worker process, the routing of commands to connectors, the prompt   *)
(* execution state machine, the question/answer protocol and the capture   *)
(* of command output.                                                      *)
(*                                                                         *)
(* One action is one turn of the JavaScript event loop: the synchronous    *)
(* code of a handler up to its next await on I/O, followed by the promise  *)
(* continuations (microtasks) that the handler's resolve calls made ready. *)
(* A caller suspended on an await is a record with a pc.                   *)
(***************************************************************************)
EXTENDS Integers, Sequences, FiniteSets, TLC

(* ------------------------------ bounds -------------------------------- *)

\* runPrompt calls made over a run; caller c submits the prompt named c
NumCallers == 3
\* response-message ids the project may allocate (bounds the worker's responses)
MaxResponses == 1
\* askQuestion calls made over a run
NumAskers == 2
\* askQuestion calls made after those, where remembered answers are studied
NumLateAskers == 1
\* runPrompt calls made over a run in which questions are asked as well
NumAskedCallers == 2
\* start() calls made over a run in which prompts, questions, reports or command
\* output are followed
MaxStarts == 1
\* lifecycle operations (start, close) in flight at once in such a run
MaxTasks == 1
\* start() calls made over a run in which the worker's life cycle is followed
NumStarts == 2
\* lifecycle operations (start, close) in flight at once in such a run
NumTasks == 2
\* the largest cost total a usage report carries
MaxCost == 2
\* characters of worker output buffered for one command
MaxOutput == 2
\* context messages in the session when a command starts to print
MaxMessages == 1

\* files that may be added to the context
NumFiles == 2
\* context messages added over a run in which the routing is followed
NumMessages == 2

\* characters of a prompt written to the input history
MaxPromptLen == 3
\* prompts written to the input history over a run
NumPrompts == 2

\* characters of the user's options string (with '--model' counted as one)
MaxOptionsLen == 5

Callers == 1 .. NumCallers
Askers == 1 .. NumAskers
\* the same with the askers of the questions asked after those
AllAskers == 1 .. NumAskers + NumLateAskers
TaskIds == 1 .. NumTasks
\* the pids of the workers spawned, in the order spawned
Pids == 1 .. NumStarts

\* null for a string-valued field
Null == "null"

\* the most messages a run of the agent returns
MaxAgentMessages == 1
\* the longest search pattern of getAddableFiles
MaxPatternLen == 2

(* ------------------------------ inputs -------------------------------- *)

\* the questions the worker or the agent may ask: QuestionData
\* (key, text and subject are strings, written as sequences of characters)
QuestionIds == {1, 2}
QuestionData(q) ==
  CASE q = 1 ->
         [key |-> <<>>, text |-> <<"a">>, subject |-> <<"b">>, internal |-> FALSE]
    [] q = 2 ->
         [key |-> <<"k">>, text |-> <<"a">>, subject |-> <<>>, internal |-> TRUE]
    [] q = 3 ->
         [key |-> <<>>, text |-> <<"a", "_">>, subject |-> <<"b">>, internal |-> FALSE]
    [] q = 4 ->
         [key |-> <<>>, text |-> <<"a">>, subject |-> <<"_", "b">>, internal |-> FALSE]
\* the same with two more questions, whose texts and subjects hold the
\* character that getQuestionKey puts between them
KeyQuestionIds == {1, 2, 3, 4}

\* raw answers the UI may give
Answers == {"y", "n", "a", "d", "Y", "N", "A", "D", "x"}

\* the connectors that may register, each with its listenTo set
ConnectorIds == {1}
\* the same with a second connector, one that does not listen to 'answer-question'
RoutingConnectorIds == {1, 2}
\* the same with one more connector, one that listens to prompts only
ReplayConnectorIds == {1, 2, 4}
ListenTo(k) ==
  IF k = 1
    THEN {"add-file", "drop-file", "add-message", "prompt", "run-command",
          "answer-question", "interrupt-response", "apply-edits", "set-models"}
    ELSE IF k = 4 THEN {"prompt"} ELSE {"add-file", "drop-file", "prompt"}

\* the same with a third connector, one whose send handlers throw
FailingConnectorIds == {1, 2, 3}
\* connector k's send handlers throw (connector.ts is not part of the source; the
\* specification speaks of "a failure in one connector's handling")
Throws(k) == k = 3

\* the context files, named by number
Files == 1 .. NumFiles
\* the path of context file f, character by character
FilePath(f) == IF f = 1 THEN <<"A", "b">> ELSE <<"b">>
\* the paths the worker may report as tracked
TrackedPaths == {<<"A", "b">>, <<"b">>, <<"a">>}
\* the lists of tracked paths the worker may report, without repetition
TrackedLists ==
  {l \in UNION {[1 .. n -> TrackedPaths] : n \in 0 .. Cardinality(TrackedPaths)} :
     \A i, j \in 1 .. Len(l) : i # j => l[i] # l[j]}
\* the characters of a search pattern: two letters, the wildcard, and an opening
\* parenthesis, which nothing closes
PatternChars == {"a", "B", ".", "("}
\* the search patterns, <<>> being the empty string; NoPattern is undefined
Patterns == UNION {[1 .. n -> PatternChars] : n \in 0 .. MaxPatternLen}
NoPattern == <<"undefined">>

\* the roles of context messages
Roles == {"user", "assistant"}

\* the characters of the prompts written to the input history
Chars == {"a", " ", "\n", "+", "#"}
\* the prompts, as sequences of characters
Prompts == UNION {[1 .. n -> Chars] : n \in 0 .. MaxPromptLen}
\* new Date().toISOString(): a string without a line break
Timestamp == <<"T">>

\* how checkAndCleanupPidFile() may go when a marker file exists: every step
\* succeeds, fs.readFile fails, the content is not a number (treeKill reports
\* it), treeKill reports an error other than 'No such process', or fs.unlink
\* fails
CleanupOutcomes == {"ok", "readFailed", "parseFailed", "killFailed", "unlinkFailed"}

\* the characters of settings.aider.options; the seven characters of '--model'
\* are written as one
OptionChars == {"--model", "=", "x", " ", "\""}
\* the options strings the user may save
OptionStrings == UNION {[1 .. n -> OptionChars] : n \in 0 .. MaxOptionsLen}
\* projectSettings.mainModel || DEFAULT_MAIN_MODEL, as one argument
MainModel == <<"main">>

\* the commands whose output is captured
Commands == {"test", "run"}
\* the chunks the worker writes to its stdout, as sequences of characters
Chunks == {<<" ">>, <<"\n">>, <<"x">>}
\* the characters String.prototype.trim() removes
WhiteSpace == {" ", "\t", "\n", "\r"}

\* a total of a usage report: <<>> when the report has none (undefined), <<v>>
\* when it carries the number v
CostTotals == {<<>>} \cup {<<v>> : v \in 0 .. MaxCost}
\* the usage reports a completed response or a tool message may carry
UsageReports ==
  [present : {TRUE}, mcpAgentTotalCost : CostTotals, aiderTotalCost : CostTotals]

(* ------------------------------- state -------------------------------- *)

VARIABLES
  process,                       \* this.process: the pid of the handle, 0 = null
  connectors,                    \* this.connectors, in registration order
  currentCommand,                \* this.currentCommand, Null = null
  currentQuestion,               \* this.currentQuestion: a question id, 0 = null
  currentQuestionPromiseResolve, \* the asker whose resolve is stored, 0 = null
  questionAnswers,               \* this.questionAnswers: key -> "y" | "n"
  currentResponseMessageId,      \* 0 = null
  currentPromptId,               \* 0 = null
  currentPromptResponses,        \* completed fragments of the running unit
  runPromptResolves,             \* pending resolvers, in the order pushed
  commandOutputs,                \* this.commandOutputs: command -> output
  contextMessages,               \* the session manager's conversation
  contextFiles,                  \* the session manager's context files, in order
  inputHistory,                  \* the prompts written to the history file
  options,                       \* settings.aider.options, character by character
  args,                          \* the argument vector of the last spawn
  historyFile,                   \* the content of the history file, character by
                                 \* character
  written,                       \* the prompts addToInputHistory appended, in order
  loaded,                        \* what the last loadInputHistory() returned
  live,                          \* worker processes alive in the OS
  pidFile,                       \* the pid in the liveness marker, 0 = no file
  spawned,                       \* workers spawned so far (the next pid)
  tasks,                         \* start()/close() calls suspended on an await
  pidWriters,                    \* writeAiderProcessPidFile() calls, one per spawn
  callers,                       \* the runPrompt calls and where each stands
  askers,                        \* the askQuestion calls and where each stands
  ids,                           \* uuids handed out so far, per use
  mcpAgentTotalCost,             \* running total of the agent's cost
  aiderTotalCost,                \* running total of the worker's cost
  started,                       \* start() calls made so far
  stdoutSinceOpen,               \* what the worker wrote to stdout since the last
                                 \* openCommandOutput, chunk after chunk
  allTrackedFiles,               \* this.allTrackedFiles: the paths the worker reported
  addable,                       \* what the last getAddableFiles() returned
  storedBy,                      \* per question key, the last answer 'a' or 'd' (lower
                                 \* case) given to a question of that key, and the
                                 \* number of start() calls made by then
  emitted,                       \* what the last turn sent to the UI and to connectors,
                                 \* and the awaits it let return, in order
  lastOp                         \* the handler the last turn ran

vars ==
  <<process, connectors, currentCommand, currentQuestion,
    currentQuestionPromiseResolve, questionAnswers, currentResponseMessageId,
    currentPromptId, currentPromptResponses, runPromptResolves, commandOutputs,
    contextMessages, contextFiles, inputHistory, historyFile, written, loaded,
    options, args, live, pidFile, spawned, tasks, pidWriters,
    callers,
    askers, ids, mcpAgentTotalCost, aiderTotalCost, started, storedBy,
    allTrackedFiles, addable, stdoutSinceOpen, emitted, lastOp>>

\* the state as one record, so that a handler is a function from state to state
This ==
  [process |-> process, connectors |-> connectors,
   currentCommand |-> currentCommand, currentQuestion |-> currentQuestion,
   currentQuestionPromiseResolve |-> currentQuestionPromiseResolve,
   questionAnswers |-> questionAnswers,
   currentResponseMessageId |-> currentResponseMessageId,
   currentPromptId |-> currentPromptId,
   currentPromptResponses |-> currentPromptResponses,
   runPromptResolves |-> runPromptResolves, commandOutputs |-> commandOutputs,
   contextMessages |-> contextMessages, contextFiles |-> contextFiles,
   inputHistory |-> inputHistory, historyFile |-> historyFile,
   written |-> written, loaded |-> loaded, options |-> options, args |-> args,
   live |-> live, pidFile |-> pidFile, spawned |-> spawned, tasks |-> tasks,
   pidWriters |-> pidWriters,
   callers |-> callers, askers |-> askers, ids |-> ids,
   mcpAgentTotalCost |-> mcpAgentTotalCost, aiderTotalCost |-> aiderTotalCost,
   started |-> started, storedBy |-> storedBy,
   allTrackedFiles |-> allTrackedFiles, addable |-> addable,
   stdoutSinceOpen |-> stdoutSinceOpen,
   emitted |-> <<>>, ret |-> FALSE, threw |-> FALSE]

Commit(S, op) ==
  /\ process' = S.process
  /\ connectors' = S.connectors
  /\ currentCommand' = S.currentCommand
  /\ currentQuestion' = S.currentQuestion
  /\ currentQuestionPromiseResolve' = S.currentQuestionPromiseResolve
  /\ questionAnswers' = S.questionAnswers
  /\ currentResponseMessageId' = S.currentResponseMessageId
  /\ currentPromptId' = S.currentPromptId
  /\ currentPromptResponses' = S.currentPromptResponses
  /\ runPromptResolves' = S.runPromptResolves
  /\ commandOutputs' = S.commandOutputs
  /\ contextMessages' = S.contextMessages
  /\ contextFiles' = S.contextFiles
  /\ inputHistory' = S.inputHistory
  /\ historyFile' = S.historyFile
  /\ written' = S.written
  /\ loaded' = S.loaded
  /\ options' = S.options
  /\ args' = S.args
  /\ live' = S.live
  /\ pidFile' = S.pidFile
  /\ spawned' = S.spawned
  /\ tasks' = S.tasks
  /\ pidWriters' = S.pidWriters
  /\ callers' = S.callers
  /\ askers' = S.askers
  /\ ids' = S.ids
  /\ mcpAgentTotalCost' = S.mcpAgentTotalCost
  /\ aiderTotalCost' = S.aiderTotalCost
  /\ started' = S.started
  /\ storedBy' = S.storedBy
  /\ allTrackedFiles' = S.allTrackedFiles
  /\ addable' = S.addable
  /\ stdoutSinceOpen' = S.stdoutSinceOpen
  /\ emitted' = S.emitted
  /\ lastOp' = op

IdleCaller ==
  [pc |-> "idle", result |-> <<>>, unit |-> 0, queued |-> FALSE,
   seen |-> <<>>, endedBy |-> Null, mode |-> "code"]
IdleAsker == [pc |-> "idle", question |-> 0, answer |-> Null, input |-> 0]
FreeTask == [pc |-> "free", kind |-> Null, pid |-> 0]

Init ==
  /\ process = 0
  /\ connectors = <<>>
  /\ currentCommand = Null
  /\ currentQuestion = 0
  /\ currentQuestionPromiseResolve = 0
  /\ questionAnswers = <<>>
  /\ currentResponseMessageId = 0
  /\ currentPromptId = 0
  /\ currentPromptResponses = <<>>
  /\ runPromptResolves = <<>>
  /\ commandOutputs = <<>>
  /\ contextMessages = <<>>
  /\ contextFiles = <<>>
  /\ inputHistory = {}
  /\ historyFile = <<>>
  /\ written = <<>>
  /\ loaded = <<>>
  /\ options = <<>>
  /\ args = <<>>
  /\ live = {}
  /\ pidFile = 0
  /\ spawned = 0
  /\ tasks = [t \in TaskIds |-> FreeTask]
  /\ pidWriters = [p \in Pids |-> [pc |-> "none", pid |-> 0]]
  /\ callers = [c \in Callers |-> IdleCaller]
  /\ askers = [a \in AllAskers |-> IdleAsker]
  /\ ids = [prompt |-> 0, response |-> 0]
  /\ mcpAgentTotalCost = 0
  /\ aiderTotalCost = 0
  /\ started = 0
  /\ storedBy = <<>>
  /\ allTrackedFiles = <<>>
  /\ addable = <<>>
  /\ stdoutSinceOpen = <<>>
  /\ emitted = <<>>
  /\ lastOp = [op |-> "init", who |-> 0]


(* ------------------------- routing and the UI ------------------------- *)

\* mainWindow.webContents.send(ev, ...)
SendUI(S, ev, arg) ==
  [S EXCEPT !.emitted = Append(@, [ch |-> "ui", to |-> 0, ev |-> ev, arg |-> arg])]

\* findMessageConnectors that returns every connector (line 373 without the
\* filter): C22 tells it from the code
findMessageConnectorsUnfiltered(S, action) == S.connectors

findMessageConnectors(S, action) ==
  SelectSeq(S.connectors, LAMBDA k : action \in ListenTo(k))

\* the send handlers of the connectors `found` are called one after the other with
\* the messages payloads[1], payloads[2], ... (payloads[i] goes to found[i]); a handler that
\* throws ends the forEach, and the exception leaves the calling method
SendEach(S, found, action, payloads) ==
  LET failing == {i \in 1 .. Len(found) : Throws(found[i])}
      last == IF failing = {}
                THEN Len(found)
                ELSE CHOOSE i \in failing : \A j \in failing : i <= j
  IN [S EXCEPT !.emitted =
        @ \o [i \in 1 .. last |->
                [ch |-> IF Throws(found[i]) THEN "throw" ELSE "conn",
                 to |-> found[i], ev |-> action, arg |-> payloads[i]]],
               !.threw = @ \/ failing # {}]

\* findMessageConnectors(action).forEach((connector) => connector.sendXMessage(...))
Route(S, action, arg) ==
  LET found == findMessageConnectors(S, action)
  IN SendEach(S, found, action, [i \in 1 .. Len(found) |-> arg])

\* an await returns: the promise of caller or asker `to` was resolved with `value`
Resume(S, to, what, value) ==
  [S EXCEPT !.emitted =
     Append(@, [ch |-> "resume", to |-> to, ev |-> what, arg |-> value])]

(* --------------------------- input history ---------------------------- *)

\* message.replace(/\n/g, '\n+')
RECURSIVE replaceNewlines(_)
replaceNewlines(message) ==
  IF message = <<>>
    THEN <<>>
    ELSE (IF Head(message) = "\n" THEN <<"\n", "+">> ELSE <<Head(message)>>)
           \o replaceNewlines(Tail(message))

\* `\n# ${timestamp}\n+${message.replace(/\n/g, '\n+')}\n`
formattedMessage(message) ==
  <<"\n", "#", " ">> \o Timestamp \o <<"\n", "+">> \o replaceNewlines(message)
    \o <<"\n">>

\* content.split('\n')
RECURSIVE split(_)
split(content) ==
  IF \A i \in 1 .. Len(content) : content[i] # "\n"
    THEN <<content>>
    ELSE LET i == CHOOSE j \in 1 .. Len(content) :
                    content[j] = "\n" /\ \A k \in 1 .. j - 1 : content[k] # "\n"
         IN <<SubSeq(content, 1, i - 1)>> \o split(SubSeq(content, i + 1, Len(content)))

\* line.startsWith(prefix)
startsWith(line, prefix) ==
  Len(line) >= Len(prefix) /\ SubSeq(line, 1, Len(prefix)) = prefix

\* String.prototype.trim()
trim(str) ==
  LET kept == {i \in 1 .. Len(str) : str[i] \notin WhiteSpace}
  IN IF kept = {}
       THEN <<>>
       ELSE SubSeq(str, CHOOSE i \in kept : \A j \in kept : i <= j,
                        CHOOSE i \in kept : \A j \in kept : j <= i)

\* Array.prototype.reverse()
reverse(list) == [i \in 1 .. Len(list) |-> list[Len(list) + 1 - i]]

\* the loop of loadInputHistory over the lines (lines 648-657); acc holds history
\* and currentInput
RECURSIVE parseLines(_, _)
parseLines(lines, acc) ==
  IF lines = <<>>
    THEN acc
    ELSE LET line == Head(lines)
             next ==
               IF startsWith(line, <<"#", " ">>)
                 THEN IF acc.currentInput # <<>>
                        THEN [history |-> Append(acc.history, trim(acc.currentInput)),
                              currentInput |-> <<>>]
                        ELSE acc
                 ELSE IF startsWith(line, <<"+">>)
                        THEN [acc EXCEPT !.currentInput =
                                @ \o SubSeq(line, 2, Len(line)) \o <<"\n">>]
                        ELSE acc
         IN parseLines(Tail(lines), next)

\* loadInputHistory(), given the content fs.readFile returned
loadInputHistory(content) ==
  IF content = <<>>
    THEN <<>>
    ELSE LET acc == parseLines(split(content), [history |-> <<>>, currentInput |-> <<>>])
             history == IF acc.currentInput # <<>>
                          THEN Append(acc.history, trim(acc.currentInput))
                          ELSE acc.history
         IN reverse(history)

(* -------------------------- session manager --------------------------- *)

\* sessionManager.addContextMessage(role, content)
addContextMessage(S, role, kind, n, text) ==
  [S EXCEPT !.contextMessages =
     Append(@, [role |-> role, kind |-> kind, n |-> n, text |-> text])]

\* sessionManager.clearMessages()
clearMessages(S) == [S EXCEPT !.contextMessages = <<>>]

(* --------------------------- command output --------------------------- *)

\* String.prototype.trim() leaves something: some character is not white space
NonBlank(output) == \E i \in 1 .. Len(output) : output[i] \notin WhiteSpace

HasOutput(S, command) == command \in DOMAIN S.commandOutputs

\* closeCommandOutput that keeps any output that is not empty (line 810 without
\* output.trim()): C16 tells it from the code
closeCommandOutputUntrimmed(S) ==
  IF S.currentCommand = Null
    THEN S
    ELSE LET command == S.currentCommand
             output == IF HasOutput(S, command) THEN S.commandOutputs[command] ELSE <<>>
             S1 == IF output # <<>>
                     THEN addContextMessage(S, "assistant", "command", 0,
                                            <<command, "\n\n">> \o output)
                     ELSE S
         IN [S1 EXCEPT
               !.commandOutputs =
                  [k \in (DOMAIN S.commandOutputs) \ {command} |-> S.commandOutputs[k]],
               !.currentCommand = Null]

closeCommandOutput(S) ==
  IF S.currentCommand = Null
    THEN S
    ELSE LET command == S.currentCommand
             output == IF HasOutput(S, command) THEN S.commandOutputs[command] ELSE <<>>
             S1 == IF NonBlank(output)
                     THEN addContextMessage(S, "assistant", "command", 0,
                                            <<command, "\n\n">> \o output)
                     ELSE S
         IN [S1 EXCEPT
               !.commandOutputs =
                  [k \in (DOMAIN S.commandOutputs) \ {command} |-> S.commandOutputs[k]],
               !.currentCommand = Null]

addCommandOutput(S, command, output) ==
  LET prev == IF HasOutput(S, command) THEN S.commandOutputs[command] ELSE <<>>
      S1 == [S EXCEPT !.commandOutputs = (command :> (prev \o output)) @@ @]
  IN SendUI(S1, "command-output", <<command>> \o output)

\* openCommandOutput that keeps what the buffer of the command holds (line 800
\* left out): C28 tells it from the code
openCommandOutputKeepsBuffer(S, command) ==
  LET S1 == [S EXCEPT !.currentCommand = command,
                      !.stdoutSinceOpen = <<>>]
  IN addCommandOutput(S1, command, <<>>)

openCommandOutput(S, command) ==
  LET S1 == [S EXCEPT !.currentCommand = command,
                      !.commandOutputs = (command :> <<>>) @@ @,
                      !.stdoutSinceOpen = <<>>]
  IN addCommandOutput(S1, command, <<>>)

\* this.process.stdout.on('data', ...) (lines 261-268)
stdoutData(S, output) ==
  LET S1 == [S EXCEPT !.stdoutSinceOpen = @ \o output]
  IN IF S1.currentCommand # Null
       THEN addCommandOutput(S1, S1.currentCommand, output)
       ELSE S1

(* ----------------------- promise continuations ------------------------ *)

\* the rest of runPrompt once the promise of sendPrompt is resolved (lines 415-428)
runPromptResumed(S, c, responses, why) ==
  LET S1 == addContextMessage(Resume(S, c, "sendPrompt", responses),
                              "user", "prompt", c, <<>>)
      RECURSIVE addAll(_, _)
      addAll(T, i) ==
        IF i > Len(responses)
          THEN T
          ELSE addAll(addContextMessage(T, "assistant", "response", responses[i], <<>>),
                      i + 1)
      S2 == addAll(S1, 1)
  IN [S2 EXCEPT !.callers[c].pc = "done", !.callers[c].result = responses,
                !.callers[c].endedBy = why]

\* the rest of runPrompt once the wait for the running prompt is over (lines 390-398):
\* it runs up to the await of fs.appendFile in addToInputHistory
runPromptWoken(S, c) == [Resume(S, c, "wait", <<>>) EXCEPT !.callers[c].pc = "append"]

\* runPrompt finds no prompt running and goes on to addToInputHistory (line 398)
runPromptHistory(S, c) == [S EXCEPT !.callers[c].pc = "append"]

\* the continuations of the resolvers, in the order in which they were resolved
RECURSIVE runContinuations(_, _, _, _)
runContinuations(S, resolved, value, why) ==
  IF resolved = <<>>
    THEN S
    ELSE LET r == Head(resolved)
             S1 == IF r.kind = "wake"
                     THEN runPromptWoken(S, r.caller)
                     ELSE runPromptResumed(S, r.caller, value, why)
         IN runContinuations(S1, Tail(resolved), value, why)

(* --------------------------- questions -------------------------------- *)

getQuestionKey(q) ==
  LET question == QuestionData(q)
  IN IF question.key # <<>>
       THEN question.key
       ELSE question.text \o <<"_">> \o question.subject

\* the answer compared as given (line 553 without toLowerCase): C13 tells it from
\* the code
sameCase(s) == s

toLowerCase(s) ==
  CASE s = "Y" -> "y" [] s = "N" -> "n" [] s = "A" -> "a" [] s = "D" -> "d"
    [] OTHER -> s

\* currentQuestionPromiseResolve([yesNoAnswer, userInput]), and the asker's await returns
resolveQuestion(S, yesNoAnswer, userInput) ==
  LET a == S.currentQuestionPromiseResolve
  IN [Resume(S, a, "askQuestion", <<yesNoAnswer>>) EXCEPT
        !.askers[a].pc = "done", !.askers[a].answer = yesNoAnswer,
        !.askers[a].input = userInput]

\* answerQuestion that remembers the answer for 'a' only (line 555 without its
\* first disjunct): C11 tells it from the code
answerQuestionForgetsDontAsk(S, answer, userInput) ==
  IF S.currentQuestion = 0
    THEN [S EXCEPT !.ret = FALSE]
    ELSE LET normalized == toLowerCase(answer)
             yesNoAnswer == IF normalized = "a" \/ normalized = "y" THEN "y" ELSE "n"
             key == getQuestionKey(S.currentQuestion)
             S0 == IF normalized = "d" \/ normalized = "a"
                     THEN [S EXCEPT !.storedBy =
                             (key :> [answer |-> normalized, starts |-> S.started]) @@ @]
                     ELSE S
             S1 == IF normalized = "a"
                     THEN [S0 EXCEPT !.questionAnswers = (key :> yesNoAnswer) @@ @]
                     ELSE S0
             S2 == IF ~QuestionData(S.currentQuestion).internal
                     THEN Route(S1, "answer-question", <<yesNoAnswer>>)
                     ELSE S1
             S3 == [S2 EXCEPT !.currentQuestion = 0]
         IN IF S3.currentQuestionPromiseResolve # 0
              THEN [resolveQuestion(S3, yesNoAnswer, userInput) EXCEPT
                      !.currentQuestionPromiseResolve = 0, !.ret = TRUE]
              ELSE [S3 EXCEPT !.ret = FALSE]

\* answerQuestion that returns true whenever a question was open (line 575
\* returning true): C12 tells it from the code
answerQuestionAlwaysTrue(S, answer, userInput) ==
  IF S.currentQuestion = 0
    THEN [S EXCEPT !.ret = FALSE]
    ELSE LET normalized == toLowerCase(answer)
             yesNoAnswer == IF normalized = "a" \/ normalized = "y" THEN "y" ELSE "n"
             key == getQuestionKey(S.currentQuestion)
             S1 == IF normalized = "d" \/ normalized = "a"
                     THEN [S EXCEPT
                             !.questionAnswers = (key :> yesNoAnswer) @@ @,
                             !.storedBy =
                               (key :> [answer |-> normalized, starts |-> S.started]) @@ @]
                     ELSE S
             S2 == IF ~QuestionData(S.currentQuestion).internal
                     THEN Route(S1, "answer-question", <<yesNoAnswer>>)
                     ELSE S1
             S3 == [S2 EXCEPT !.currentQuestion = 0]
         IN IF S3.currentQuestionPromiseResolve # 0
              THEN [resolveQuestion(S3, yesNoAnswer, userInput) EXCEPT
                      !.currentQuestionPromiseResolve = 0, !.ret = TRUE]
              ELSE [S3 EXCEPT !.ret = TRUE]

\* answerQuestion that routes the answer of an internal question too (without
\* the test of line 564): C14 tells it from the code
answerQuestionRoutesInternal(S, answer, userInput) ==
  IF S.currentQuestion = 0
    THEN [S EXCEPT !.ret = FALSE]
    ELSE LET normalized == toLowerCase(answer)
             yesNoAnswer == IF normalized = "a" \/ normalized = "y" THEN "y" ELSE "n"
             key == getQuestionKey(S.currentQuestion)
             S1 == IF normalized = "d" \/ normalized = "a"
                     THEN [S EXCEPT
                             !.questionAnswers = (key :> yesNoAnswer) @@ @,
                             !.storedBy =
                               (key :> [answer |-> normalized, starts |-> S.started]) @@ @]
                     ELSE S
             S2 == Route(S1, "answer-question", <<yesNoAnswer>>)
             S3 == [S2 EXCEPT !.currentQuestion = 0]
         IN IF S3.currentQuestionPromiseResolve # 0
              THEN [resolveQuestion(S3, yesNoAnswer, userInput) EXCEPT
                      !.currentQuestionPromiseResolve = 0, !.ret = TRUE]
              ELSE [S3 EXCEPT !.ret = FALSE]

\* answerQuestion(answer, userInput); the value returned is left in ret
\* (userInput: the prompt of caller c, 0 = undefined)
answerQuestion(S, answer, userInput) ==
  IF S.currentQuestion = 0
    THEN [S EXCEPT !.ret = FALSE]
    ELSE LET normalized == toLowerCase(answer)
             yesNoAnswer == IF normalized = "a" \/ normalized = "y" THEN "y" ELSE "n"
             S1 == IF normalized = "d" \/ normalized = "a"
                     THEN [S EXCEPT
                             !.questionAnswers =
                               (getQuestionKey(S.currentQuestion) :> yesNoAnswer) @@ @,
                             !.storedBy =
                               (getQuestionKey(S.currentQuestion) :>
                                  [answer |-> normalized, starts |-> S.started]) @@ @]
                     ELSE S
             S2 == IF ~QuestionData(S.currentQuestion).internal
                     THEN Route(S1, "answer-question", <<yesNoAnswer>>)
                     ELSE S1
             S3 == [S2 EXCEPT !.currentQuestion = 0]
         IN IF S3.currentQuestionPromiseResolve # 0
              THEN [resolveQuestion(S3, yesNoAnswer, userInput) EXCEPT
                      !.currentQuestionPromiseResolve = 0, !.ret = TRUE]
              ELSE [S3 EXCEPT !.ret = FALSE]

\* askQuestion without the lookup of the stored answer (lines 697-716 left out):
\* C10 tells it from the code
askQuestionAlwaysAsks(S, a, q) ==
  SendUI([S EXCEPT !.currentQuestion = q, !.askers[a].question = q,
                   !.currentQuestionPromiseResolve = a,
                   !.askers[a].pc = "waiting"],
         "ask-question", <<q>>)

\* askQuestion(questionData), called for asker a
askQuestion(S, a, q) ==
  LET S1 == [S EXCEPT !.currentQuestion = q, !.askers[a].question = q]
      key == getQuestionKey(q)
  IN IF key \in DOMAIN S1.questionAnswers
       THEN LET storedAnswer == S1.questionAnswers[key]
                S2 == IF ~QuestionData(q).internal
                        THEN answerQuestion(S1, storedAnswer, 0)
                        ELSE S1
            IN [S2 EXCEPT !.askers[a].pc = "done", !.askers[a].answer = storedAnswer,
                          !.askers[a].input = 0]
       ELSE SendUI([S1 EXCEPT !.currentQuestionPromiseResolve = a,
                              !.askers[a].pc = "waiting"],
                   "ask-question", <<q>>)

(* ------------------------------ prompts ------------------------------- *)

\* sendPrompt(prompt, mode), called for caller c
sendPrompt(S, c) ==
  LET id == S.ids.prompt + 1
      S1 == [S EXCEPT !.currentPromptResponses = <<>>,
                      !.currentResponseMessageId = 0,
                      !.currentPromptId = id,
                      !.ids.prompt = id]
      S2 == Route(S1, "prompt", <<c, id>>)
  IN [S2 EXCEPT !.runPromptResolves = Append(@, [kind |-> "unit", caller |-> c]),
                !.callers[c].pc = "active", !.callers[c].unit = id]

\* runPrompt from addUserMessage on (lines 400-415), mode not 'agent'
runPromptSend(S, c) ==
  sendPrompt(SendUI(SendUI(S, "user-message", <<c>>), "log", <<"loading">>), c)

\* runPrompt from addUserMessage on in agent mode, up to the await of
\* agent.runAgent (lines 400-404)
runPromptAgent(S, c) ==
  LET S1 == SendUI(SendUI(S, "user-message", <<c>>), "log", <<"loading">>)
  IN [S1 EXCEPT !.callers[c].pc = "agent",
                !.emitted = Append(@, [ch |-> "agent", to |-> c, ev |-> "runAgent",
                                       arg |-> <<>>])]

\* runPrompt that sends the prompt to the worker whatever the mode (the test of
\* line 403 left out): C39 tells it from the code
runPromptIgnoresMode(S, c) == runPromptSend(S, c)

\* runPrompt from addUserMessage on (lines 400-415)
runPromptProceed(S, c) ==
  IF S.callers[c].mode = "agent" THEN runPromptAgent(S, c) ELSE runPromptSend(S, c)

\* runPrompt that answers the open question but does not return on it (the
\* return of line 380 left out): C9 tells it from the code
runPromptAfterAnswer(S, c) ==
  LET S1 == IF S.currentQuestion # 0 THEN answerQuestion(S, "n", c) ELSE S
  IN IF S1.currentPromptId # 0
       THEN [S1 EXCEPT
               !.runPromptResolves = Append(@, [kind |-> "wake", caller |-> c]),
               !.callers[c].pc = "queued", !.callers[c].queued = TRUE]
       ELSE runPromptHistory(S1, c)

\* runPrompt(prompt, mode) up to its first suspension, called for caller c
runPrompt(S, c) ==
  LET S1 == IF S.currentQuestion # 0 THEN answerQuestion(S, "n", c) ELSE S
  IN IF S.currentQuestion # 0 /\ S1.ret
       THEN [S1 EXCEPT !.callers[c].pc = "done", !.callers[c].result = <<>>,
                       !.callers[c].endedBy = "question"]
       ELSE IF S1.currentPromptId # 0
         THEN [S1 EXCEPT
                 !.runPromptResolves = Append(@, [kind |-> "wake", caller |-> c]),
                 !.callers[c].pc = "queued", !.callers[c].queued = TRUE]
         ELSE runPromptHistory(S1, c)

\* promptFinished that takes the resolvers from the end of the list (pop() for
\* the shift() of line 468): C6 tells it from the code
promptFinishedLifo(S) ==
  LET S1 == IF S.currentResponseMessageId # 0
              THEN [SendUI(S, "response-completed", <<S.currentResponseMessageId>>)
                      EXCEPT !.currentResponseMessageId = 0]
              ELSE S
      responses == S1.currentPromptResponses
      S2 == closeCommandOutput([S1 EXCEPT !.currentPromptResponses = <<>>,
                                          !.currentPromptId = 0])
      n == Len(S2.runPromptResolves)
      resolved == [i \in 1 .. n |-> S2.runPromptResolves[n + 1 - i]]
  IN runContinuations([S2 EXCEPT !.runPromptResolves = <<>>], resolved, responses,
                      "finish")

\* promptFinished that leaves the command capture open (line 465 left out): C26
\* tells it from the code
promptFinishedKeepsCommand(S) ==
  LET S1 == IF S.currentResponseMessageId # 0
              THEN [SendUI(S, "response-completed", <<S.currentResponseMessageId>>)
                      EXCEPT !.currentResponseMessageId = 0]
              ELSE S
      responses == S1.currentPromptResponses
      S2 == [S1 EXCEPT !.currentPromptResponses = <<>>, !.currentPromptId = 0]
      resolved == S2.runPromptResolves
  IN runContinuations([S2 EXCEPT !.runPromptResolves = <<>>], resolved, responses,
                      "finish")

promptFinished(S) ==
  LET S1 == IF S.currentResponseMessageId # 0
              THEN [SendUI(S, "response-completed", <<S.currentResponseMessageId>>)
                      EXCEPT !.currentResponseMessageId = 0]
              ELSE S
      responses == S1.currentPromptResponses
      S2 == closeCommandOutput([S1 EXCEPT !.currentPromptResponses = <<>>,
                                          !.currentPromptId = 0])
      \* while (runPromptResolves.length) runPromptResolves.shift()(responses)
      resolved == S2.runPromptResolves
  IN runContinuations([S2 EXCEPT !.runPromptResolves = <<>>], resolved, responses,
                      "finish")

\* if (total): the total is a number and not 0
Truthy(total) == total # <<>> /\ total[1] # 0

\* updateTotalCosts that adds the reported totals to the running ones (+= for the
\* = of lines 901 and 904): C15 tells it from the code
updateTotalCostsSums(S, usageReport) ==
  LET S1 == IF Truthy(usageReport.mcpAgentTotalCost)
              THEN [S EXCEPT !.mcpAgentTotalCost = @ + usageReport.mcpAgentTotalCost[1]]
              ELSE S
  IN IF Truthy(usageReport.aiderTotalCost)
       THEN [S1 EXCEPT !.aiderTotalCost = @ + usageReport.aiderTotalCost[1]]
       ELSE S1

updateTotalCosts(S, usageReport) ==
  LET S1 == IF Truthy(usageReport.mcpAgentTotalCost)
              THEN [S EXCEPT !.mcpAgentTotalCost = usageReport.mcpAgentTotalCost[1]]
              ELSE S
  IN IF Truthy(usageReport.aiderTotalCost)
       THEN [S1 EXCEPT !.aiderTotalCost = usageReport.aiderTotalCost[1]]
       ELSE S1

\* message.usageReport undefined
NoReport == [present |-> FALSE, mcpAgentTotalCost |-> <<>>, aiderTotalCost |-> <<>>]

\* addToolMessage(id, serverName, toolName, args, response, usageReport)
addToolMessage(S, usageReport) ==
  SendUI(IF usageReport.present THEN updateTotalCosts(S, usageReport) ELSE S,
         "tool", <<>>)

\* processResponseMessage(message): message.finished, and message.usageReport
\* processResponseMessage that allocates an id for every unfinished chunk (line
\* 476 without its test): C27 tells it from the code
processResponseMessageFreshIds(S, finished, usageReport) ==
  LET S1 == IF S.currentResponseMessageId = 0 \/ ~finished
              THEN [S EXCEPT !.currentResponseMessageId = S.ids.response + 1,
                             !.ids.response = S.ids.response + 1]
              ELSE S
      messageId == S1.currentResponseMessageId
  IN IF ~finished
       THEN SendUI(S1, "response-chunk", <<messageId>>)
       ELSE LET S2 == IF usageReport.present THEN updateTotalCosts(S1, usageReport) ELSE S1
                S3 == SendUI(S2, "response-completed", <<messageId>>)
                S4 == closeCommandOutput([S3 EXCEPT !.currentResponseMessageId = 0])
            IN [S4 EXCEPT
                  !.currentPromptResponses = Append(@, messageId),
                  !.callers = [c \in Callers |->
                                 IF @[c].pc = "active"
                                   THEN [@[c] EXCEPT !.seen = Append(@, messageId)]
                                   ELSE @[c]]]

processResponseMessage(S, finished, usageReport) ==
  LET S1 == IF S.currentResponseMessageId = 0
              THEN [S EXCEPT !.currentResponseMessageId = S.ids.response + 1,
                             !.ids.response = S.ids.response + 1]
              ELSE S
      messageId == S1.currentResponseMessageId
  IN IF ~finished
       THEN SendUI(S1, "response-chunk", <<messageId>>)
       ELSE LET S2 == IF usageReport.present THEN updateTotalCosts(S1, usageReport) ELSE S1
                S3 == SendUI(S2, "response-completed", <<messageId>>)
                S4 == closeCommandOutput([S3 EXCEPT !.currentResponseMessageId = 0])
            IN [S4 EXCEPT
                  !.currentPromptResponses = Append(@, messageId),
                  !.callers = [c \in Callers |->
                                 IF @[c].pc = "active"
                                   THEN [@[c] EXCEPT !.seen = Append(@, messageId)]
                                   ELSE @[c]]]

(* ----------------------------- lifecycle ------------------------------ *)

\* killAider that resolves the callers with the responses gathered so far, not
\* with [] (line 359): C4 tells it from the code
killAiderKeepsResponses(S, pid) ==
  LET responses == S.currentPromptResponses
      S1 == [S EXCEPT !.live = @ \ {pid},
                      !.pidFile = 0,
                      !.currentCommand = Null,
                      !.currentQuestion = 0,
                      !.currentResponseMessageId = 0,
                      !.currentPromptId = 0,
                      !.currentPromptResponses = <<>>]
      resolved == S1.runPromptResolves
      S2 == clearMessages([S1 EXCEPT !.runPromptResolves = <<>>])
  IN runContinuations([S2 EXCEPT !.process = 0], resolved, responses, "kill")

\* killAider() after treeKill reported success (lines 347-362, 367), and the
\* continuations of the promises it resolved
killAiderSucceeded(S, pid) ==
  LET S1 == [S EXCEPT !.live = @ \ {pid},
                      \* removeAiderProcessPidFile()
                      !.pidFile = 0,
                      !.currentCommand = Null,
                      !.currentQuestion = 0,
                      !.currentResponseMessageId = 0,
                      !.currentPromptId = 0,
                      !.currentPromptResponses = <<>>]
      resolved == S1.runPromptResolves
      S2 == clearMessages([S1 EXCEPT !.runPromptResolves = <<>>])
  IN runContinuations([S2 EXCEPT !.process = 0], resolved, <<>>, "kill")

\* killAider() after treeKill reported an error: it rethrows (lines 344-345, 363-368)
killAiderFailed(S) == [S EXCEPT !.process = 0]

\* killAider() with a worker handle, up to its await: treeKill is called for the
\* worker (lines 338-350); the call of kind `kind` waits in slot t
killAiderBegin(S, t, kind) ==
  [S EXCEPT !.tasks[t] = [pc |-> "kill", kind |-> kind, pid |-> S.process],
            !.emitted = Append(@, [ch |-> "os", to |-> S.process, ev |-> "treeKill",
                                   arg |-> <<>>])]

\* the error of killAider() swallowed by its catch (line 365 left out): close()
\* resolves and runAider() goes on to the marker and the spawn: C18 tells it
\* from the code
killAiderErrorSwallowed(S, t) ==
  [S EXCEPT !.tasks[t] = IF S.tasks[t].kind = "start"
                           THEN [pc |-> "pidfile", kind |-> "start", pid |-> 0]
                           ELSE FreeTask]

\* the error thrown by killAider() leaves the call waiting in slot t: close()
\* (line 299) or runAider() (line 191) ends rejected with it
killAiderThrew(S, t) ==
  [S EXCEPT !.tasks[t] = FreeTask,
            !.emitted = Append(@, [ch |-> "reject", to |-> t, ev |-> S.tasks[t].kind,
                                   arg |-> <<>>])]

\* close() that stops the worker before it tells the UI (lines 298 and 299
\* exchanged): C20 tells it from the code
closeKillsFirst(S, t) ==
  LET S1 == IF S.process # 0 THEN killAiderBegin(S, t, "close") ELSE S
  IN SendUI(S1, "clear-project", <<>>)

\* close(), up to the await in killAider(); the call waits in slot t
close(S, t) ==
  LET S1 == SendUI(S, "clear-project", <<>>)
  IN IF S1.process # 0 THEN killAiderBegin(S1, t, "close") ELSE S1

\* logger.error(...)
LogError(S, what) ==
  [S EXCEPT !.emitted = Append(@, [ch |-> "logger", to |-> 0, ev |-> "error",
                                   arg |-> <<what>>])]

\* treeKill(pid, 'SIGKILL', callback) of checkAndCleanupPidFile is called
TreeKillStale(S) ==
  [S EXCEPT !.emitted = Append(@, [ch |-> "os", to |-> S.pidFile, ev |-> "treeKill",
                                   arg |-> <<>>])]

\* checkAndCleanupPidFile without its try/catch (lines 170 and 183-185 left out):
\* C29 tells it from the code
checkAndCleanupPidFileThrows(S, outcome) ==
  IF S.pidFile = 0
    THEN S
    ELSE CASE outcome = "ok" ->
                [TreeKillStale(S) EXCEPT !.live = @ \ {S.pidFile}, !.pidFile = 0]
           [] outcome = "readFailed" -> [S EXCEPT !.threw = TRUE]
           [] outcome = "parseFailed" -> [S EXCEPT !.threw = TRUE]
           [] outcome = "killFailed" -> [TreeKillStale(S) EXCEPT !.threw = TRUE]
           [] outcome = "unlinkFailed" ->
                [TreeKillStale(S) EXCEPT !.live = @ \ {S.pidFile}, !.threw = TRUE]

\* checkAndCleanupPidFile(): with no marker file nothing is done; with one, the
\* steps are taken up to the first that fails, and the failure is logged
checkAndCleanupPidFile(S, outcome) ==
  IF S.pidFile = 0
    THEN S
    ELSE CASE outcome = "ok" ->
                [TreeKillStale(S) EXCEPT !.live = @ \ {S.pidFile}, !.pidFile = 0]
           [] outcome = "readFailed" -> LogError(S, "cleanup")
           [] outcome = "parseFailed" -> LogError(S, "cleanup")
           [] outcome = "killFailed" -> LogError(TreeKillStale(S), "cleanup")
           [] outcome = "unlinkFailed" ->
                LogError([TreeKillStale(S) EXCEPT !.live = @ \ {S.pidFile}], "cleanup")

\* the end of the longest match of (?:[^\s"]+|"[^"]*")+ that starts at position
\* i of str (i itself when there is none)
RECURSIVE matchEnd(_, _)
matchEnd(str, i) ==
  IF i > Len(str)
    THEN i
    ELSE IF str[i] \notin WhiteSpace \cup {"\""}
           THEN matchEnd(str, i + 1)
           ELSE IF str[i] = "\"" /\ \E j \in i + 1 .. Len(str) : str[j] = "\""
                  THEN matchEnd(str, 1 + CHOOSE j \in i + 1 .. Len(str) :
                                         /\ str[j] = "\""
                                         /\ \A k \in i + 1 .. j - 1 : str[k] # "\"")
                  ELSE i

\* str.match(/(?:[^\s"]+|"[^"]*")+/g) || [], from position i on
RECURSIVE matchAll(_, _)
matchAll(str, i) ==
  IF i > Len(str)
    THEN <<>>
    ELSE LET e == matchEnd(str, i)
         IN IF e = i
              THEN matchAll(str, i + 1)
              ELSE <<SubSeq(str, i, e - 1)>> \o matchAll(str, e)

rawOptionsArgs(str) == matchAll(str, 1)

\* arg.startsWith('"') && arg.endsWith('"') ? arg.slice(1, -1) : arg
unquoted(arg) ==
  IF arg[1] = "\"" /\ arg[Len(arg)] = "\""
    THEN SubSeq(arg, 2, Len(arg) - 1)
    ELSE arg

\* the loop of lines 216-223 from index i on
RECURSIVE processedOptionsArgs(_, _)
processedOptionsArgs(raw, i) ==
  IF i > Len(raw)
    THEN <<>>
    ELSE IF raw[i] = <<"--model">>
           THEN processedOptionsArgs(raw, i + 2)
           ELSE <<unquoted(raw[i])>> \o processedOptionsArgs(raw, i + 1)

\* the argument vector (lines 212-242), for project settings that name neither a
\* weak model nor a reasoning effort nor thinking tokens
aiderArgs(str) ==
  <<<<"-m">>, <<"connector">>>>
    \o processedOptionsArgs(rawOptionsArgs(str), 1)
    \o <<<<"--no-check-update">>, <<"--no-show-model-warnings">>>>
    \o <<<<"--model">>, MainModel>>

\* runAider() from the spawn on (lines 254-289)
spawnAider(S) ==
  LET pid == S.spawned + 1
  IN [S EXCEPT !.process = pid, !.live = @ \cup {pid}, !.spawned = pid,
               !.args = aiderArgs(S.options),
               \* void this.writeAiderProcessPidFile(), up to its await of fs.mkdir
               !.pidWriters[pid] = [pc |-> "mkdir", pid |-> 0]]

(* ------------------------------ actions ------------------------------- *)

Op(op, who) == [op |-> op, who |-> who]

\* the lowest free slot for a suspended start() or close()
FreeSlot(t) ==
  /\ tasks[t].pc = "free"
  /\ \A u \in TaskIds : u < t => tasks[u].pc # "free"

\* a caller calls runPrompt(prompt, mode); the callers come in the order of their names
RunPrompt(c) ==
  /\ callers[c].pc = "idle"
  /\ \A d \in Callers : d < c => callers[d].pc # "idle"
  /\ Commit(runPrompt(This, c), Op("runPrompt", c))

\* fs.appendFile of addToInputHistory ends: with ok the prompt is in the file and
\* the history is read back, otherwise the error is logged and runPrompt goes on
HistoryAppended(c, ok) ==
  /\ callers[c].pc = "append"
  /\ IF ok
       THEN Commit([This EXCEPT !.inputHistory = @ \cup {c},
                                !.callers[c].pc = "reload"],
                   Op("historyAppended", c))
       ELSE Commit(runPromptProceed(This, c),
                   Op(IF callers[c].mode = "agent" THEN "runAgent" ELSE "sendPrompt", c))

\* fs.readFile of loadInputHistory ends, and runPrompt goes on to sendPrompt
HistoryLoaded(c) ==
  /\ callers[c].pc = "reload"
  /\ Commit(runPromptProceed(SendUI(This, "input-history-updated", <<>>), c),
            Op(IF callers[c].mode = "agent" THEN "runAgent" ELSE "sendPrompt", c))

\* runPrompt(prompt, 'agent') is called for caller c
RunPromptAgent(c) ==
  /\ callers[c].pc = "idle"
  /\ \A d \in Callers : d < c => callers[d].pc # "idle"
  /\ Commit(runPrompt([This EXCEPT !.callers[c].mode = "agent"], c),
            Op("runPrompt", c))


\* the worker reports a response chunk or a completed response
ProcessResponseMessage(finished, usageReport) ==
  /\ currentResponseMessageId # 0 \/ ids.response < MaxResponses
  /\ Commit(processResponseMessage(This, finished, usageReport),
            Op(IF finished THEN "responseCompleted" ELSE "responseChunk", 0))

\* the connector reports that a command starts to print
OpenCommandOutput(command) ==
  /\ Len(contextMessages) < MaxMessages
  /\ Commit(openCommandOutput(This, command), Op("openCommandOutput", 0))

\* the connector reports that the command is done printing
CloseCommandOutput ==
  Commit(closeCommandOutput(This), Op("closeCommandOutput", 0))

\* a worker that is alive writes a chunk to its stdout
StdoutData(pid, output) ==
  /\ pid \in live
  /\ Len(stdoutSinceOpen) + Len(output) <= MaxOutput
  /\ Commit(stdoutData(This, output), Op("stdout", pid))

\* the agent reports a tool call, with or without a usage report
AddToolMessage(usageReport) ==
  Commit(addToolMessage(This, usageReport), Op("tool", 0))

\* the worker reports the end of the turn
PromptFinished == Commit(promptFinished(This), Op("promptFinished", 0))

\* the worker or the agent asks a question; the askers come in the order of their names
AskQuestion(a, q) ==
  /\ askers[a].pc = "idle"
  /\ \A b \in AllAskers : b < a => askers[b].pc # "idle"
  /\ Commit(askQuestion(This, a, q), Op("askQuestion", a))

\* the UI answers the open question
AnswerQuestion(answer) ==
  Commit(answerQuestion(This, answer, 0), Op("answerQuestion", 0))

\* start() with the default startup mode, up to the first await of runAider()
Start(t) ==
  /\ started < NumStarts
  /\ FreeSlot(t)
  /\ LET S0 == IF process # 0
                 THEN killAiderBegin(This, t, "start")
                 ELSE [This EXCEPT
                         !.tasks[t] = [pc |-> "pidfile", kind |-> "start", pid |-> 0]]
         S1 == [S0 EXCEPT
                  !.started = @ + 1,
                  !.mcpAgentTotalCost = 0,
                  !.aiderTotalCost = 0,
                  !.currentPromptId = 0,
                  !.currentResponseMessageId = 0,
                  !.currentCommand = Null,
                  !.currentQuestion = 0,
                  !.currentQuestionPromiseResolve = 0,
                  !.questionAnswers = <<>>]
     IN Commit(S1, Op("start", 0))

\* start() as one of at most n calls
StartOfAtMost(t, n) == started < n /\ Start(t)

\* close(): with a worker handle, up to the await in killAider()
Close(t) ==
  /\ process # 0
  /\ FreeSlot(t)
  /\ Commit(close(This, t), Op("close", 0))

\* close() without a worker handle: killAider() does nothing
CloseIdle ==
  /\ process = 0
  /\ Commit(close(This, 0), Op("close", 0))

\* treeKill calls back without an error
KillSucceeded(t) ==
  /\ tasks[t].pc = "kill"
  /\ LET S1 == killAiderSucceeded(This, tasks[t].pid)
     IN Commit([S1 EXCEPT !.tasks[t] =
                  IF tasks[t].kind = "start"
                    THEN [pc |-> "pidfile", kind |-> "start", pid |-> 0]
                    ELSE FreeTask],
               Op("killSucceeded", Len(currentPromptResponses)))

\* treeKill calls back with an error
KillFailed(t) ==
  /\ tasks[t].pc = "kill"
  /\ Commit(killAiderThrew(killAiderFailed(This), t), Op("killFailed", t))

\* checkAndCleanupPidFile() ends and runAider() spawns the worker, unless the
\* awaited call threw
PidFileChecked(t, outcome) ==
  /\ tasks[t].pc = "pidfile"
  /\ pidFile # 0 \/ outcome = "ok"
  /\ LET S1 == checkAndCleanupPidFile(This, outcome)
     IN IF S1.threw
          THEN Commit([S1 EXCEPT !.tasks[t] = FreeTask], Op("runAiderFailed", t))
          ELSE Commit([spawnAider(S1) EXCEPT !.tasks[t] = FreeTask], Op("spawn", 0))

\* fs.mkdir of writeAiderProcessPidFile() ends: the pid of this.process is read,
\* which throws (and is logged) when the handle is null by now
PidDirMade(p) ==
  /\ pidWriters[p].pc = "mkdir"
  /\ Commit([This EXCEPT !.pidWriters[p] =
               IF process # 0
                 THEN [pc |-> "write", pid |-> process]
                 ELSE [pc |-> "done", pid |-> 0]],
            Op("pidDirMade", p))

\* fs.writeFile of writeAiderProcessPidFile() ends
PidFileWritten(p) ==
  /\ pidWriters[p].pc = "write"
  /\ Commit([This EXCEPT !.pidFile = pidWriters[p].pid,
                         !.pidWriters[p] = [pc |-> "done", pid |-> 0]],
            Op("pidFileWritten", p))

\* a worker exits on its own: the 'close' handler only logs
ProcessExit(pid) ==
  /\ pid \in live
  /\ Commit([This EXCEPT !.live = @ \ {pid}], Op("processExit", pid))

\* addConnector that replays the conversation but not the context files (lines
\* 120-122 left out): C23 tells it from the code
addConnectorWithoutFiles(S, k) ==
  LET S1 == [S EXCEPT !.connectors = Append(@, k)]
      messages == S.contextMessages
  IN IF "add-message" \in ListenTo(k)
       THEN SendEach(S1, [i \in 1 .. Len(messages) |-> k], "add-message",
                     [i \in 1 .. Len(messages) |->
                        <<messages[i].role, messages[i].kind, messages[i].n>>])
       ELSE S1

\* addConnector(connector), for a connector that names no input history file
addConnector(S, k) ==
  LET S1 == [S EXCEPT !.connectors = Append(@, k)]
      files == S.contextFiles
      messages == S.contextMessages
      S2 == IF "add-file" \in ListenTo(k)
              THEN SendEach(S1, [i \in 1 .. Len(files) |-> k], "add-file",
                            [i \in 1 .. Len(files) |-> <<files[i]>>])
              ELSE S1
  IN IF "add-message" \in ListenTo(k) /\ ~S2.threw
       THEN SendEach(S2, [i \in 1 .. Len(messages) |-> k], "add-message",
                     [i \in 1 .. Len(messages) |->
                        <<messages[i].role, messages[i].kind, messages[i].n>>])
       ELSE S2

removeConnector(S, k) ==
  [S EXCEPT !.connectors = SelectSeq(@, LAMBDA c : c # k)]

\* sendAddFile(contextFile)
sendAddFile(S, f) == Route(S, "add-file", <<f>>)

\* addFile(contextFile): sessionManager.addContextFile refuses a file that is in
\* the context already
addFile(S, f) ==
  IF \E i \in 1 .. Len(S.contextFiles) : S.contextFiles[i] = f
    THEN S
    ELSE sendAddFile([S EXCEPT !.contextFiles = Append(@, f)], f)

\* sendDropFile(filePath, readOnly)
sendDropFile(S, f) == Route(S, "drop-file", <<f>>)

\* dropFile(filePath): the path is sent whether or not a file was dropped
dropFile(S, f) ==
  sendDropFile([S EXCEPT !.contextFiles = SelectSeq(@, LAMBDA g : g # f)], f)

\* sendAddMessage(role, content, acknowledge)
sendAddMessage(S, role, n) == Route(S, "add-message", <<role, "context", n>>)

\* the rest of runPrompt in agent mode once agent.runAgent returned n messages
\* (lines 405-413): they are added to the session and sent to the connectors
runAgentReturned(S, c, n) ==
  LET RECURSIVE addAll(_, _)
      addAll(T, i) ==
        IF i > n
          THEN T
          ELSE addAll(addContextMessage(T, "assistant", "agent", i, <<>>), i + 1)
      RECURSIVE sendAll(_, _)
      sendAll(T, i) ==
        IF i > n THEN T ELSE sendAll(sendAddMessage(T, "assistant", i), i + 1)
      S1 == sendAll(addAll(Resume(S, c, "runAgent", <<>>), 1), 1)
  IN [S1 EXCEPT !.callers[c].pc = "done", !.callers[c].result = <<>>,
                !.callers[c].endedBy = "agent"]

\* Project.addContextMessage(role, content)
projectAddContextMessage(S, role, n) ==
  sendAddMessage(addContextMessage(S, role, "context", n, <<>>), role, n)

\* applyEdits(edits)
applyEdits(S) == Route(S, "apply-edits", <<>>)

\* interruptResponse that ends the running prompt itself (promptFinished() called
\* after line 863): C25 tells it from the code
interruptResponseFinishes(S) ==
  LET S1 == Route(S, "interrupt-response", <<>>)
      S2 == IF S1.threw
              THEN S1
              ELSE [S1 EXCEPT !.emitted =
                      Append(@, [ch |-> "agent", to |-> 0, ev |-> "interrupt",
                                 arg |-> <<>>])]
  IN promptFinished(S2)

\* interruptResponse(): agent.interrupt() is reached unless a send handler threw
interruptResponse(S) ==
  LET S1 == Route(S, "interrupt-response", <<>>)
  IN IF S1.threw
       THEN S1
       ELSE [S1 EXCEPT !.emitted =
               Append(@, [ch |-> "agent", to |-> 0, ev |-> "interrupt", arg |-> <<>>])]

\* setAllTrackedFiles(files)
setAllTrackedFiles(S, files) == [S EXCEPT !.allTrackedFiles = files]

\* new RegExp(searchRegex, 'i') throws a SyntaxError: a group is not terminated
InvalidRegex(searchRegex) ==
  \E i \in 1 .. Len(searchRegex) : searchRegex[i] = "("

\* the letter ch without its case (flag 'i')
FoldCase(ch) == CASE ch = "A" -> "a" [] ch = "B" -> "b" [] OTHER -> ch

\* regex.test(file) for a valid pattern: the pattern matches somewhere in the
\* path, a letter matching itself in either case and '.' any character
RegexTest(searchRegex, file) ==
  \E s \in 0 .. Len(file) :
    /\ s + Len(searchRegex) <= Len(file)
    /\ \A i \in 1 .. Len(searchRegex) :
         \/ searchRegex[i] = "."
         \/ FoldCase(searchRegex[i]) = FoldCase(file[s + i])

\* the files of allTrackedFiles that are not in the context
NotInContext(S) ==
  LET contextFilePaths == {FilePath(S.contextFiles[i]) : i \in 1 .. Len(S.contextFiles)}
  IN SelectSeq(S.allTrackedFiles, LAMBDA file : file \notin contextFilePaths)

\* getAddableFiles that lets the SyntaxError of an invalid pattern out (no
\* try/catch at lines 768-773): C31 tells it from the code
getAddableFilesThrows(S, searchRegex) ==
  LET files == NotInContext(S)
  IN IF searchRegex = NoPattern \/ searchRegex = <<>>
       THEN [S EXCEPT !.addable = files]
       ELSE IF InvalidRegex(searchRegex)
              THEN [S EXCEPT !.threw = TRUE,
                             !.emitted = Append(@, [ch |-> "throw", to |-> 0,
                                                    ev |-> "SyntaxError",
                                                    arg |-> <<>>])]
              ELSE [S EXCEPT !.addable =
                      SelectSeq(files, LAMBDA file : RegexTest(searchRegex, file))]

\* getAddableFiles(searchRegex): an undefined or empty pattern is falsy and
\* filters nothing; the result is kept in addable
getAddableFiles(S, searchRegex) ==
  LET files == NotInContext(S)
  IN IF searchRegex = NoPattern \/ searchRegex = <<>>
       THEN [S EXCEPT !.addable = files]
       ELSE IF InvalidRegex(searchRegex)
              THEN [LogError(S, "Invalid regex for getAddableFiles") EXCEPT !.addable = files]
              ELSE [S EXCEPT !.addable =
                      SelectSeq(files, LAMBDA file : RegexTest(searchRegex, file))]

InConnectors(k) == \E i \in 1 .. Len(connectors) : connectors[i] = k

AddConnector(k) ==
  /\ ~InConnectors(k)
  /\ Commit(addConnector(This, k), Op("addConnector", k))

RemoveConnector(k) ==
  /\ InConnectors(k)
  /\ Commit(removeConnector(This, k), Op("removeConnector", k))

\* fs.appendFile of addToInputHistory(message) ends
AddToInputHistory(message) ==
  /\ Len(written) < NumPrompts
  /\ Commit([This EXCEPT !.historyFile = @ \o formattedMessage(message),
                         !.written = Append(@, message)],
            Op("addToInputHistory", 0))

\* fs.readFile of loadInputHistory() ends and the content is parsed
LoadInputHistory ==
  Commit([This EXCEPT !.loaded = loadInputHistory(historyFile)],
         Op("loadInputHistory", 0))

\* the user saves the settings with options for the worker, once over a run
SaveSettings(str) ==
  /\ options = <<>>
  /\ Commit([This EXCEPT !.options = str], Op("saveSettings", 0))

\* the UI adds a file to the context
AddFile(f) == Commit(addFile(This, f), Op("addFile", f))

\* the UI drops a file from the context
DropFile(f) == Commit(dropFile(This, f), Op("dropFile", f))

\* the worker reports its tracked files
SetAllTrackedFiles(files) ==
  Commit(setAllTrackedFiles(This, files), Op("setAllTrackedFiles", 0))

\* the UI asks for the files that can be added
GetAddableFiles(searchRegex) ==
  Commit(getAddableFiles(This, searchRegex), Op("getAddableFiles", 0))

\* agent.runAgent returns n messages to caller c
AgentReturned(c, n) ==
  /\ callers[c].pc = "agent"
  /\ Commit(runAgentReturned(This, c, n), Op("agentReturned", c))

\* a message is added to the conversation; the messages are numbered as they come
AddContextMessage(role) ==
  /\ Len(contextMessages) < NumMessages
  /\ Commit(projectAddContextMessage(This, role, Len(contextMessages) + 1),
            Op("addContextMessage", 0))

\* the UI applies edits
ApplyEdits == Commit(applyEdits(This), Op("applyEdits", 0))

\* the UI interrupts the response
InterruptResponse == Commit(interruptResponse(This), Op("interruptResponse", 0))

(* --------------------------- specifications -------------------------- *)

\* the prompt execution state machine
NextPromptOps ==
  \/ \E c \in Callers : RunPrompt(c)
  \/ \E c \in Callers, ok \in BOOLEAN : HistoryAppended(c, ok)
  \/ \E c \in Callers : HistoryLoaded(c)
  \/ \E finished \in BOOLEAN : ProcessResponseMessage(finished, NoReport)
  \/ PromptFinished

\* the question/answer protocol
NextQuestionOps ==
  \/ \E a \in Askers, q \in QuestionIds : AskQuestion(a, q)
  \/ \E answer \in Answers : AnswerQuestion(answer)

\* the supervision of the worker process, with the calls suspended in the slots T
\* and at most n calls of start()
ProcessOps(T, n) ==
  \/ \E t \in T : StartOfAtMost(t, n)
  \/ \E t \in T : Close(t)
  \/ CloseIdle
  \/ \E t \in T : KillSucceeded(t)
  \/ \E t \in T : KillFailed(t)
  \/ \E t \in T, outcome \in CleanupOutcomes : PidFileChecked(t, outcome)
  \/ \E pid \in Pids : ProcessExit(pid)

NextProcessOps == ProcessOps(1 .. MaxTasks, MaxStarts)

\* the liveness marker
NextPidFileOps ==
  \/ \E p \in Pids : PidDirMade(p)
  \/ \E p \in Pids : PidFileWritten(p)

\* the usage reports of completed responses and of tool messages
NextCostOps ==
  \/ \E finished \in BOOLEAN, usageReport \in UsageReports \cup {NoReport} :
       ProcessResponseMessage(finished, usageReport)
  \/ \E usageReport \in UsageReports \cup {NoReport} : AddToolMessage(usageReport)

\* the capture of the worker's output while a command runs
NextCommandOps ==
  \/ \E command \in Commands : OpenCommandOutput(command)
  \/ CloseCommandOutput
  \/ \E pid \in Pids, output \in Chunks : StdoutData(pid, output)

\* the commands routed to the connectors
NextRoutedOps ==
  \/ \E f \in Files : AddFile(f)
  \/ \E f \in Files : DropFile(f)
  \/ \E role \in Roles : AddContextMessage(role)
  \/ ApplyEdits
  \/ InterruptResponse

\* the input history file
NextHistoryOps ==
  \/ \E message \in Prompts : AddToInputHistory(message)
  \/ LoadInputHistory

\* the settings store
NextSettingsOps == \E str \in OptionStrings : SaveSettings(str)

\* the tracked files and the files that can be added
NextAddableOps ==
  \/ \E files \in TrackedLists : SetAllTrackedFiles(files)
  \/ \E searchRegex \in Patterns \cup {NoPattern} : GetAddableFiles(searchRegex)

\* the connector registry
NextConnectorOps ==
  \/ \E k \in ConnectorIds : AddConnector(k)
  \/ \E k \in ConnectorIds : RemoveConnector(k)

Next ==
  \/ NextPromptOps
  \/ NextCommandOps
  \/ NextCostOps
  \/ NextQuestionOps
  \/ NextProcessOps
  \/ NextPidFileOps
  \/ NextConnectorOps
  \/ NextRoutedOps
  \/ NextHistoryOps
  \/ NextSettingsOps
  \/ NextAddableOps

\* the whole project
Spec == Init /\ [][Next]_vars

\* prompts, connectors and the worker's life cycle
NextPrompt == NextPromptOps \/ NextProcessOps \/ NextConnectorOps
SpecPrompt == Init /\ [][NextPrompt]_vars

\* questions, the prompts that answer them, connectors and the worker's life cycle
NextQuestion ==
  \/ NextQuestionOps
  \/ \E c \in Callers : RunPrompt(c)
  \/ NextProcessOps
  \/ NextConnectorOps
SpecQuestion == Init /\ [][NextQuestion]_vars

\* questions asked while prompts are sent and finished
NextPromptQuestion ==
  \/ NextQuestionOps
  \/ \E c \in 1 .. NumAskedCallers : RunPrompt(c)
  \/ \E c \in Callers, ok \in BOOLEAN : HistoryAppended(c, ok)
  \/ \E c \in Callers : HistoryLoaded(c)
  \/ PromptFinished
  \/ NextConnectorOps
SpecPromptQuestion == Init /\ [][NextPromptQuestion]_vars

\* questions and the prompts that answer them, with two connectors registering
NextAnswerRouting ==
  \/ NextQuestionOps
  \/ \E c \in 1 .. NumAskedCallers : RunPrompt(c)
  \/ \E k \in RoutingConnectorIds : AddConnector(k)
  \/ \E k \in RoutingConnectorIds : RemoveConnector(k)
SpecAnswerRouting == Init /\ [][NextAnswerRouting]_vars

\* usage reports before and after a start of the project
NextCosts ==
  \/ NextCostOps
  \/ PromptFinished
  \/ \E t \in 1 .. MaxTasks : StartOfAtMost(t, MaxStarts)
  \/ \E t \in 1 .. MaxTasks, outcome \in CleanupOutcomes : PidFileChecked(t, outcome)
SpecCosts == Init /\ [][NextCosts]_vars

\* command output over the worker's life cycle and the ends of responses
NextCommand ==
  \/ NextCommandOps
  \/ NextProcessOps
  \/ ProcessResponseMessage(TRUE, NoReport)
  \/ PromptFinished
SpecCommand == Init /\ [][NextCommand]_vars

\* the worker's life cycle with overlapping start() and close() calls, and the
\* liveness marker
NextLifecycle == ProcessOps(TaskIds, NumStarts) \/ NextPidFileOps
SpecLifecycle == Init /\ [][NextLifecycle]_vars

\* prompts written to the input history file and read back
NextHistory == NextHistoryOps
SpecHistory == Init /\ [][NextHistory]_vars

\* the routing of commands while connectors come and go
NextRouting ==
  \/ NextRoutedOps
  \/ \E k \in ReplayConnectorIds : AddConnector(k)
  \/ \E k \in ReplayConnectorIds : RemoveConnector(k)
SpecRouting == Init /\ [][NextRouting]_vars

\* the same with a connector whose send handlers throw
NextRoutingFailure ==
  \/ NextRoutedOps
  \/ \E k \in FailingConnectorIds : AddConnector(k)
  \/ \E k \in FailingConnectorIds : RemoveConnector(k)
SpecRoutingFailure == Init /\ [][NextRoutingFailure]_vars

\* interrupts while prompts run and questions are open
NextInterrupt ==
  \/ \E c \in 1 .. NumAskedCallers : RunPrompt(c)
  \/ \E c \in Callers, ok \in BOOLEAN : HistoryAppended(c, ok)
  \/ \E c \in Callers : HistoryLoaded(c)
  \/ \E finished \in BOOLEAN : ProcessResponseMessage(finished, NoReport)
  \/ PromptFinished
  \/ \E q \in QuestionIds : AskQuestion(1, q)
  \/ InterruptResponse
  \/ NextConnectorOps
SpecInterrupt == Init /\ [][NextInterrupt]_vars

\* response chunks, completed responses and the end of the turn while prompts
\* run and a command prints
NextFinish ==
  \/ \E c \in 1 .. NumAskedCallers : RunPrompt(c)
  \/ \E c \in Callers, ok \in BOOLEAN : HistoryAppended(c, ok)
  \/ \E c \in Callers : HistoryLoaded(c)
  \/ \E finished \in BOOLEAN : ProcessResponseMessage(finished, NoReport)
  \/ \E command \in Commands : OpenCommandOutput(command)
  \/ PromptFinished
SpecFinish == Init /\ [][NextFinish]_vars

\* starts of the worker under the options the user saved
NextArgs ==
  \/ NextSettingsOps
  \/ \E t \in 1 .. MaxTasks : StartOfAtMost(t, MaxStarts)
  \/ \E t \in 1 .. MaxTasks, outcome \in CleanupOutcomes : PidFileChecked(t, outcome)
SpecArgs == Init /\ [][NextArgs]_vars

\* a stop of the worker while a prompt runs, a question is open, a command prints
\* and the liveness marker is written
NextStop ==
  \/ NextProcessOps
  \/ NextPidFileOps
  \/ RunPrompt(1)
  \/ HistoryAppended(1, TRUE)
  \/ HistoryLoaded(1)
  \/ \E finished \in BOOLEAN : ProcessResponseMessage(finished, NoReport)
  \/ \E q \in QuestionIds : AskQuestion(1, q)
  \/ OpenCommandOutput("test")
SpecStop == Init /\ [][NextStop]_vars

\* the files that can be added while files enter and leave the context
NextAddable ==
  \/ NextAddableOps
  \/ \E f \in Files : AddFile(f)
  \/ \E f \in Files : DropFile(f)
SpecAddable == Init /\ [][NextAddable]_vars

\* questions asked and answered while the worker is started, stopped and
\* restarted
NextAskStop == NextQuestionOps \/ ProcessOps(1 .. MaxTasks, NumStarts)
SpecAskStop == Init /\ [][NextAskStop]_vars

\* the same with what the event loop and the user bring about: the callback of
\* treeKill is called, the awaited check of the marker ends, and the user
\* answers a question that is open
FairAskStop ==
  /\ WF_vars(\E t \in 1 .. MaxTasks : KillSucceeded(t) \/ KillFailed(t))
  /\ WF_vars(\E t \in 1 .. MaxTasks, outcome \in CleanupOutcomes :
               PidFileChecked(t, outcome))
  /\ WF_vars(\E answer \in Answers : AnswerQuestion(answer))
SpecAskStopFair == SpecAskStop /\ FairAskStop

\* questions asked one after another, some with a remembered answer
NextAutoAnswer ==
  \/ \E a \in AllAskers, q \in QuestionIds : AskQuestion(a, q)
  \/ \E answer \in Answers : AnswerQuestion(answer)
  \/ NextConnectorOps
SpecAutoAnswer == Init /\ [][NextAutoAnswer]_vars

\* prompts sent while the worker is started, stopped and restarted, the stops
\* failing or not
NextKillFailure ==
  \/ \E c \in 1 .. NumAskedCallers : RunPrompt(c)
  \/ \E c \in Callers, ok \in BOOLEAN : HistoryAppended(c, ok)
  \/ \E c \in Callers : HistoryLoaded(c)
  \/ PromptFinished
  \/ ProcessOps(1 .. MaxTasks, NumStarts)
SpecKillFailure == Init /\ [][NextKillFailure]_vars

\* prompts in agent mode among prompts for the worker and questions
NextAgent ==
  \/ \E c \in 1 .. NumAskedCallers : RunPrompt(c)
  \/ \E c \in 1 .. NumAskedCallers : RunPromptAgent(c)
  \/ \E c \in Callers, ok \in BOOLEAN : HistoryAppended(c, ok)
  \/ \E c \in Callers : HistoryLoaded(c)
  \/ \E c \in Callers, n \in 0 .. MaxAgentMessages : AgentReturned(c, n)
  \/ PromptFinished
  \/ \E q \in QuestionIds : AskQuestion(1, q)
  \/ NextConnectorOps
SpecAgent == Init /\ [][NextAgent]_vars

\* questions whose texts and subjects hold an underscore, asked and answered
NextQuestionKeys ==
  \/ \E a \in Askers, q \in KeyQuestionIds : AskQuestion(a, q)
  \/ \E answer \in Answers : AnswerQuestion(answer)
SpecQuestionKeys == Init /\ [][NextQuestionKeys]_vars

(* ------------------------------- claims ------------------------------- *)

\* the events of one kind among those a turn emitted
EventsOf(es, ch, ev) == SelectSeq(es, LAMBDA e : e.ch = ch /\ e.ev = ev)
Resumes(es) == SelectSeq(es, LAMBDA e : e.ch = "resume")

ActiveCallers == {c \in Callers : callers[c].pc = "active"}
QueuedCallers == {c \in Callers : callers[c].pc = "queued"}

\* C1: a 'prompt' command is never routed to connectors while an earlier
\* execution unit is still Active: right after a prompt is routed for a caller,
\* that caller's unit is the only one whose sendPrompt promise is pending.
C1_PromptsOneAtATime ==
  (lastOp.op = "sendPrompt" /\ EventsOf(emitted, "conn", "prompt") # <<>>)
    => ActiveCallers = {lastOp.who}

\* C2: the list a runPrompt call returns when promptFinished ends its unit is
\* exactly the sequence of finished responses processed since its own sendPrompt.
C2_OwnFragments ==
  \A c \in Callers :
    (callers[c].pc = "done" /\ callers[c].endedBy = "finish")
      => callers[c].result = callers[c].seen

\* C3: when the kill of the worker succeeds while callers are queued behind an
\* Active unit, every queued caller's runPrompt returns an empty list and the
\* project is Idle: currentPromptId is null and no resolver is pending.
C3_KillResolvesQueued ==
  [][(lastOp'.op = "killSucceeded" /\ QueuedCallers # {})
       => /\ \A c \in QueuedCallers :
               callers'[c].pc = "done" /\ callers'[c].result = <<>>
          /\ currentPromptId' = 0
          /\ runPromptResolves' = <<>>]_vars

\* C4: when the kill of the worker succeeds while a unit is Active, the active
\* caller's promise is resolved with an empty list, whatever fragments the unit
\* had accumulated.
C4_KillResolvesActive ==
  [][lastOp'.op = "killSucceeded"
       => \A c \in ActiveCallers :
            /\ callers'[c].pc = "done"
            /\ callers'[c].result = <<>>
            /\ \E i \in 1 .. Len(emitted') :
                 /\ emitted'[i].ch = "resume"
                 /\ emitted'[i].to = c
                 /\ emitted'[i].arg = <<>>]_vars

\* C4 happens: a unit that had accumulated a fragment was ended by a kill
C4_Witness ==
  /\ lastOp.op = "killSucceeded"
  /\ lastOp.who > 0
  /\ \E c \in Callers :
       /\ callers[c].pc = "done"
       /\ callers[c].endedBy = "kill"
       /\ callers[c].seen # <<>>
       /\ callers[c].result = <<>>

\* C5: if the worker exits on its own while a unit is Active, the active caller
\* and all queued callers are resolved with an empty list and the project is Idle.
C5_ExitResolvesCallers ==
  [][(lastOp'.op = "processExit" /\ lastOp'.who = process /\ ActiveCallers # {})
       => /\ \A c \in ActiveCallers \cup QueuedCallers :
               callers'[c].pc = "done" /\ callers'[c].result = <<>>
          /\ currentPromptId' = 0
          /\ runPromptResolves' = <<>>]_vars

\* C6: promptFinished resolves the pending resolvers in the order in which they
\* were pushed, each with the fragment list captured when it was called.
C6_FinishResolvesFifo ==
  [][lastOp'.op = "promptFinished"
       => LET resumed == Resumes(emitted')
          IN /\ Len(resumed) = Len(runPromptResolves)
             /\ runPromptResolves' = <<>>
             /\ \A i \in 1 .. Len(runPromptResolves) :
                  /\ resumed[i].to = runPromptResolves[i].caller
                  /\ runPromptResolves[i].kind = "unit"
                       => /\ resumed[i].arg = currentPromptResponses
                          /\ callers'[resumed[i].to].result = currentPromptResponses]_vars

\* C6 happens: promptFinished resolved two resolvers or more, with a fragment
C6_Witness ==
  /\ lastOp.op = "promptFinished"
  /\ Len(Resumes(emitted)) >= 2
  /\ \E c \in Callers :
       /\ callers[c].pc = "done"
       /\ callers[c].endedBy = "finish"
       /\ callers[c].result # <<>>
  /\ \E c \in Callers : callers[c].pc = "append" /\ callers[c].queued

\* C7: callers that queued behind an active unit have their 'prompt' commands
\* routed in the order in which they called runPrompt: when the prompt of such
\* a caller is routed, the prompt of every such caller that called earlier was
\* sent before.
C7_QueuedRoutedInCallOrder ==
  [][\A d \in Callers :
       (/\ lastOp'.op = "sendPrompt"
        /\ lastOp'.who = d
        /\ callers[d].queued
        /\ EventsOf(emitted', "conn", "prompt") # <<>>)
         => \A c \in Callers : (c < d /\ callers[c].queued) => callers[c].unit # 0]_vars

\* the question is open and its asker is suspended on it
QuestionPending == currentQuestion # 0 /\ currentQuestionPromiseResolve # 0

\* C8: at most one question is open at a time: askQuestion called while another
\* question is pending neither replaces the pending question nor discards its
\* waiter.
C8_AskKeepsPendingQuestion ==
  [][(lastOp'.op = "askQuestion" /\ QuestionPending)
       => /\ currentQuestion' = currentQuestion
          /\ currentQuestionPromiseResolve' = currentQuestionPromiseResolve
          /\ askers'[currentQuestionPromiseResolve].pc = "waiting"]_vars

\* C9: runPrompt called while a question is open with a suspended waiter resolves
\* that waiter with ['n', prompt], returns an empty list at once, routes no
\* 'prompt' command, appends nothing to the input history and allocates no
\* execution unit.
C9_PromptAnswersQuestion ==
  [][(lastOp'.op = "runPrompt" /\ QuestionPending)
       => LET c == lastOp'.who
              a == currentQuestionPromiseResolve
          IN /\ askers'[a].pc = "done"
             /\ askers'[a].answer = "n"
             /\ askers'[a].input = c
             /\ callers'[c].pc = "done"
             /\ callers'[c].result = <<>>
             /\ callers'[c].unit = 0
             /\ EventsOf(emitted', "conn", "prompt") = <<>>
             /\ inputHistory' = inputHistory
             /\ currentPromptId' = currentPromptId
             /\ runPromptResolves' = runPromptResolves
             /\ ids'.prompt = ids.prompt]_vars

\* C9 happens: a prompt submitted while a unit was Active answered a question
C9_Witness ==
  /\ lastOp.op = "runPrompt"
  /\ callers[lastOp.who].pc = "done"
  /\ callers[lastOp.who].endedBy = "question"
  /\ \E a \in Askers :
       askers[a].pc = "done" /\ askers[a].answer = "n" /\ askers[a].input = lastOp.who
  /\ currentPromptId # 0
  /\ runPromptResolves # <<>>

\* C10: askQuestion for a question whose identity has a remembered answer sends
\* no 'ask-question' event to the UI and returns a promise already resolved with
\* [answer, undefined], without storing a waiter.
C10_RememberedAnswerNoPrompt ==
  [][\A a \in Askers :
       (/\ lastOp'.op = "askQuestion"
        /\ lastOp'.who = a
        /\ getQuestionKey(askers'[a].question) \in DOMAIN questionAnswers)
         => /\ EventsOf(emitted', "ui", "ask-question") = <<>>
            /\ askers'[a].pc = "done"
            /\ askers'[a].answer = questionAnswers[getQuestionKey(askers'[a].question)]
            /\ askers'[a].input = 0
            /\ currentQuestionPromiseResolve' # a]_vars

\* C10 happens: a question with a remembered answer was asked again
C10_Witness ==
  /\ lastOp.op = "askQuestion"
  /\ askers[lastOp.who].pc = "done"
  /\ getQuestionKey(askers[lastOp.who].question) \in DOMAIN questionAnswers
  /\ askers[lastOp.who].answer = questionAnswers[getQuestionKey(askers[lastOp.who].question)]

\* the question asked by the askQuestion call that the last turn ran was last
\* answered with 'd'
AskedAfterDontAsk(a) ==
  /\ lastOp'.op = "askQuestion"
  /\ lastOp'.who = a
  /\ getQuestionKey(askers'[a].question) \in DOMAIN storedBy
  /\ storedBy[getQuestionKey(askers'[a].question)].answer = "d"

\* the askQuestion call of asker a returned the answer stored by 'd' and asked nothing
ReturnedStoredNo(a) ==
  /\ EventsOf(emitted', "ui", "ask-question") = <<>>
  /\ askers'[a].pc = "done"
  /\ askers'[a].answer = "n"
  /\ askers'[a].input = 0

\* C11 (as stated): after an open question is answered with 'd', a later
\* askQuestion of the identical question (same key, or same text and subject when
\* no key is given) returns the stored answer without emitting a UI question.
C11_DontAskAgainRemembered ==
  [][\A a \in Askers : AskedAfterDontAsk(a) => ReturnedStoredNo(a)]_vars

\* C11 (amended): the same, as long as start() was not called since the answer
\* was given: start() clears the remembered answers.
C11_DontAskAgainUntilStart ==
  [][\A a \in Askers :
       (/\ AskedAfterDontAsk(a)
        /\ storedBy[getQuestionKey(askers'[a].question)].starts = started)
         => ReturnedStoredNo(a)]_vars

\* C11 happens: a question answered with 'd' was asked again and not shown
C11_Witness ==
  /\ lastOp.op = "askQuestion"
  /\ askers[lastOp.who].pc = "done"
  /\ askers[lastOp.who].answer = "n"
  /\ getQuestionKey(askers[lastOp.who].question) \in DOMAIN storedBy
  /\ storedBy[getQuestionKey(askers[lastOp.who].question)] =
       [answer |-> "d", starts |-> started]
  /\ \E b \in Askers : b # lastOp.who /\ askers[b].question = askers[lastOp.who].question

\* the fields of the project and the calls in flight: everything but the record of
\* the last turn
fields ==
  <<process, connectors, currentCommand, currentQuestion,
    currentQuestionPromiseResolve, questionAnswers, currentResponseMessageId,
    currentPromptId, currentPromptResponses, runPromptResolves, commandOutputs,
    contextMessages, contextFiles, inputHistory, historyFile, written, loaded,
    options, args, live, pidFile, spawned, tasks, pidWriters,
    callers, askers, ids, mcpAgentTotalCost, aiderTotalCost, started, storedBy>>

\* the last turn let a suspended askQuestion call return
WaiterResolved == \E a \in Askers : askers[a].pc = "waiting" /\ askers'[a].pc = "done"

\* C12: answerQuestion returns true exactly when it resolved a suspended
\* askQuestion waiter; when no question is open it returns false, routes nothing
\* to connectors and changes no state.
C12_AnswerReturnsWhetherResolved ==
  [][\A answer \in Answers :
       (lastOp'.op = "answerQuestion" /\ AnswerQuestion(answer))
         => /\ answerQuestion(This, answer, 0).ret <=> WaiterResolved
            /\ currentQuestion = 0
                 => /\ ~answerQuestion(This, answer, 0).ret
                    /\ emitted' = <<>>
                    /\ fields' = fields]_vars

\* C12 happens: an answer to an open question resolved its waiter
C12_Witness ==
  /\ lastOp.op = "answerQuestion"
  /\ Resumes(emitted) # <<>>
  /\ \E a \in Askers : askers[a].pc = "done" /\ askers[a].answer = "y"
  /\ currentQuestion = 0

\* the answers that mean yes, and those that are to be remembered, in either case
YesAnswers == {"a", "A", "y", "Y"}
RememberAnswers == {"a", "A", "d", "D"}

\* C13: answerQuestion normalizes the raw answer case-insensitively so that 'a'
\* and 'y' yield 'y' and every other value yields 'n'; the remembered-answers
\* table is written (normalized value, under the open question's identity)
\* exactly when the raw answer is 'a' or 'd', and is left unchanged for every
\* other answer.
C13_AnswerNormalized ==
  [][\A answer \in Answers :
       (lastOp'.op = "answerQuestion" /\ currentQuestion # 0 /\ AnswerQuestion(answer))
         => LET yesNo == IF answer \in YesAnswers THEN "y" ELSE "n"
                key == getQuestionKey(currentQuestion)
            IN /\ currentQuestionPromiseResolve # 0
                    => askers'[currentQuestionPromiseResolve].answer = yesNo
               /\ \A e \in {emitted'[i] : i \in 1 .. Len(emitted')} :
                    e.ev = "answer-question" => e.arg = <<yesNo>>
               /\ IF answer \in RememberAnswers
                    THEN /\ DOMAIN questionAnswers' = DOMAIN questionAnswers \cup {key}
                         /\ questionAnswers'[key] = yesNo
                         /\ \A k \in DOMAIN questionAnswers :
                              k # key => questionAnswers'[k] = questionAnswers[k]
                    ELSE questionAnswers' = questionAnswers]_vars

\* C13 happens: an answer was remembered as 'n' and given to the waiter, with
\* another question's answer remembered as 'y'
C13_Witness ==
  /\ lastOp.op = "answerQuestion"
  /\ \E a \in Askers :
       /\ askers[a].pc = "done"
       /\ askers[a].answer = "n"
       /\ getQuestionKey(askers[a].question) \in DOMAIN questionAnswers
       /\ questionAnswers[getQuestionKey(askers[a].question)] = "n"
       /\ storedBy[getQuestionKey(askers[a].question)].answer = "d"
  /\ \E k \in DOMAIN questionAnswers : questionAnswers[k] = "y"

\* the connectors subscribed to 'answer-question', in registration order
AnswerSubscribers == SelectSeq(connectors, LAMBDA k : "answer-question" \in ListenTo(k))

\* the 'answer-question' commands the last turn routed
AnswersRouted == EventsOf(emitted', "conn", "answer-question")

\* the last turn routed `yesNo` once to every subscriber and nothing else
RoutedOnceToEach(yesNo) ==
  /\ Len(AnswersRouted) = Len(AnswerSubscribers)
  /\ \A i \in 1 .. Len(AnswersRouted) :
       AnswersRouted[i].to = AnswerSubscribers[i] /\ AnswersRouted[i].arg = <<yesNo>>

\* C14: for a question flagged internal no 'answer-question' command is ever
\* routed to connectors, neither by answerQuestion nor by the remembered-answer
\* path of askQuestion; for a non-internal open question each answer routes the
\* normalized answer exactly once to every connector subscribed to
\* 'answer-question'.
C14_AnswerRouting ==
  [][/\ \A a \in Askers :
          (/\ lastOp'.op = "askQuestion"
           /\ lastOp'.who = a
           /\ QuestionData(askers'[a].question).internal) => AnswersRouted = <<>>
     /\ (/\ lastOp'.op \in {"answerQuestion", "runPrompt"}
         /\ currentQuestion # 0
         /\ QuestionData(currentQuestion).internal) => AnswersRouted = <<>>
     /\ (/\ lastOp'.op = "runPrompt"
         /\ currentQuestion # 0
         /\ ~QuestionData(currentQuestion).internal) => RoutedOnceToEach("n")
     /\ \A answer \in Answers :
          (/\ lastOp'.op = "answerQuestion"
           /\ currentQuestion # 0
           /\ ~QuestionData(currentQuestion).internal
           /\ AnswerQuestion(answer))
            => RoutedOnceToEach(IF answer \in YesAnswers THEN "y" ELSE "n")]_vars

\* C14 happens: with a subscribed and an unsubscribed connector registered, an
\* answer to an open question was routed, after an internal question was
\* answered and remembered
C14_Witness ==
  /\ lastOp.op = "answerQuestion"
  /\ Len(connectors) = 2
  /\ Len(EventsOf(emitted, "conn", "answer-question")) = 1
  /\ \E a \in Askers :
       /\ askers[a].pc = "done"
       /\ QuestionData(askers[a].question).internal
       /\ getQuestionKey(askers[a].question) \in DOMAIN questionAnswers

\* the total after a report: the reported value when the report has one for it,
\* the total as it was when the report's value is empty (no value, or 0, which
\* stands for no cost)
TotalAfter(total, reported) ==
  IF reported = <<>> \/ reported = <<0>> THEN total ELSE reported[1]

\* C15: after any sequence of usage reports (from completed responses and tool
\* messages), each of the two totals mcpAgentTotalCost and aiderTotalCost equals
\* the value carried by the latest report that had a non-empty value for that
\* total (replaced, never summed), and a report whose value for one total is
\* empty leaves that total and does not disturb the other. Step by step: a
\* report sets each total to its own non-empty value and leaves it otherwise, and
\* nothing but a report or start() changes a total.
C15_CostsFollowLatestReport ==
  [][/\ \A usageReport \in UsageReports :
          (\/ lastOp'.op = "tool" /\ AddToolMessage(usageReport)
           \/ /\ lastOp'.op = "responseCompleted"
              /\ ProcessResponseMessage(TRUE, usageReport))
            => /\ mcpAgentTotalCost' =
                    TotalAfter(mcpAgentTotalCost, usageReport.mcpAgentTotalCost)
               /\ aiderTotalCost' =
                    TotalAfter(aiderTotalCost, usageReport.aiderTotalCost)
     /\ lastOp'.op \notin {"tool", "responseCompleted", "start"}
          => /\ mcpAgentTotalCost' = mcpAgentTotalCost
             /\ aiderTotalCost' = aiderTotalCost]_vars

\* C15 happens: reports have set the two totals to different values, the one of
\* the agent by a tool message after the other was set
C15_Witness ==
  /\ lastOp.op = "tool"
  /\ mcpAgentTotalCost = 1
  /\ aiderTotalCost = MaxCost
  /\ currentPromptResponses # <<>>

\* the turns that run closeCommandOutput
CloseOps == {"closeCommandOutput", "promptFinished", "responseCompleted"}

\* some character of the output is neither a blank nor a line break
HasText(output) ==
  \E i \in 1 .. Len(output) : output[i] # " " /\ output[i] # "\n" /\ output[i] # "\t"

\* C16: for openCommandOutput(c) followed by any number of worker stdout chunks
\* and then closeCommandOutput: if the concatenation of the chunks is non-blank
\* after trimming, exactly one assistant context message made of the command, a
\* blank line and the full concatenated output is appended, and if it is blank
\* none is appended; in both cases afterwards no command is current and c's
\* buffer no longer exists.
C16_CommandOutputFolded ==
  [][(lastOp'.op \in CloseOps /\ currentCommand # Null)
       => /\ IF HasText(stdoutSinceOpen)
               THEN contextMessages' =
                      Append(contextMessages,
                             [role |-> "assistant", kind |-> "command", n |-> 0,
                              text |-> <<currentCommand, "\n\n">> \o stdoutSinceOpen])
               ELSE contextMessages' = contextMessages
          /\ currentCommand' = Null
          /\ currentCommand \notin DOMAIN commandOutputs']_vars

\* C16 happens: output of two chunks, the first of them blank, was folded into
\* the conversation
C16_Witness ==
  /\ lastOp.op = "closeCommandOutput"
  /\ currentCommand = Null
  /\ commandOutputs = <<>>
  /\ Len(stdoutSinceOpen) = 2
  /\ stdoutSinceOpen[1] = " "
  /\ contextMessages # <<>>
  /\ contextMessages[Len(contextMessages)].text = <<"test", "\n\n">> \o stdoutSinceOpen

\* C17: at any time at most one worker process spawned for a project is alive:
\* whenever a start/restart happens while a worker is live, the old worker is
\* killed before the new one is spawned, for every interleaving of start() and
\* close() calls including a second start() issued while the first is still in
\* progress.
C17_OneWorkerAlive == Cardinality(live) <= 1

\* the call waiting in slot t ended rejected in the last turn
Rejected(t) ==
  \E i \in 1 .. Len(emitted') :
    /\ emitted'[i].ch = "reject"
    /\ emitted'[i].to = t
    /\ emitted'[i].ev = tasks[t].kind

\* C18: a failure to terminate the worker's process tree is fatal for that stop
\* attempt: killAider rethrows it so that close() rejects with the error, and a
\* restart whose kill fails does not go on to spawn a new worker.
C18_KillFailureIsFatal ==
  [][\A t \in TaskIds :
       (lastOp'.op = "killFailed" /\ lastOp'.who = t)
         => /\ Rejected(t)
            /\ tasks'[t] = FreeTask
            /\ spawned' = spawned
            /\ live' = live]_vars

\* C18 happens: the kill of a restart failed, the restart ended without a spawn
\* and the old worker is still alive
C18_Witness ==
  /\ lastOp.op = "killFailed"
  /\ \E i \in 1 .. Len(emitted) : emitted[i].ch = "reject" /\ emitted[i].ev = "start"
  /\ tasks[lastOp.who] = FreeTask
  /\ process = 0
  /\ live # {}
  /\ spawned < started

\* in the turn in which killAider resolves, the handle, the marker and the run
\* state are cleared (the part of C19 that the code keeps)
StopClearsRunState ==
  [][lastOp'.op = "killSucceeded"
       => /\ process' = 0
          /\ pidFile' = 0
          /\ currentQuestion' = 0
          /\ currentCommand' = Null
          /\ currentPromptId' = 0
          /\ currentResponseMessageId' = 0
          /\ currentPromptResponses' = <<>>]_vars

\* a stop succeeded with a fragment gathered, a caller and an asker waiting, a
\* command printing and the marker written
StopWitness ==
  /\ lastOp.op = "killSucceeded"
  /\ lastOp.who > 0
  /\ \E c \in Callers : callers[c].endedBy = "kill"
  /\ \E a \in Askers : askers[a].pc = "waiting"
  /\ commandOutputs # <<>>
  /\ \E p \in Pids : pidWriters[p].pc = "done" /\ p \notin live
  /\ process = 0 /\ pidFile = 0 /\ currentQuestion = 0 /\ currentCommand = Null

\* C19: after a successful stop (killAider resolves) the process handle is null,
\* the liveness marker file for the project is absent, and the current question,
\* current command, current prompt id, current response id and accumulated
\* fragment list are all cleared: they are so when killAider resolves, and the
\* marker is still absent one turn later.
C19_StopLeavesNoMarker ==
  [][/\ lastOp'.op = "killSucceeded"
          => /\ process' = 0
             /\ pidFile' = 0
             /\ currentQuestion' = 0
             /\ currentCommand' = Null
             /\ currentPromptId' = 0
             /\ currentResponseMessageId' = 0
             /\ currentPromptResponses' = <<>>
     /\ lastOp.op = "killSucceeded" => pidFile' = 0]_vars

\* C20: in every execution of close(), the 'clear-project' UI notification is
\* sent before termination of the worker is initiated, including when no worker
\* is running.
C20_ClearProjectBeforeKill ==
  [][lastOp'.op = "close"
       => /\ Len(EventsOf(emitted', "ui", "clear-project")) = 1
          /\ emitted'[1].ev = "clear-project"
          /\ process # 0 <=> EventsOf(emitted', "os", "treeKill") # <<>>]_vars

\* C20 happens: close() found a worker, told the UI and then called treeKill
C20_Witness ==
  /\ lastOp.op = "close"
  /\ Len(emitted) = 2
  /\ emitted[1].ev = "clear-project"
  /\ emitted[2].ev = "treeKill"
  /\ \E t \in TaskIds : tasks[t].pc = "kill" /\ tasks[t].kind = "close"

\* the handlers that route one command, and the category of each
RoutedOps == {"addFile", "dropFile", "addContextMessage", "applyEdits", "interruptResponse"}
Category(op) ==
  CASE op = "addFile" -> "add-file"
    [] op = "dropFile" -> "drop-file"
    [] op = "addContextMessage" -> "add-message"
    [] op = "applyEdits" -> "apply-edits"
    [] op = "interruptResponse" -> "interrupt-response"

\* the connectors whose send handler was called for `action`, in the order called
Targets(es, action) ==
  LET sel == SelectSeq(es, LAMBDA e : e.ch \in {"conn", "throw"} /\ e.ev = action)
  IN [i \in 1 .. Len(sel) |-> sel[i].to]

\* the connectors to which `action` was delivered
DeliveredTo(es, action) ==
  {es[i].to : i \in {j \in 1 .. Len(es) : es[j].ch = "conn" /\ es[j].ev = action}}

\* the registered connectors that listen to `action`, in registration order
Subscribers(action) ==
  SelectSeq(connectors, LAMBDA k : action \in ListenTo(k))

\* the last turn routed a command: addFile routes only a file it added
RoutedCommand ==
  /\ lastOp'.op \in RoutedOps
  /\ lastOp'.op = "addFile" => Len(contextFiles') > Len(contextFiles)

\* C21: if one connector's send handler fails (throws) while a command is being
\* dispatched, the command is still delivered to every other connector
\* subscribed to that category.
C21_FailureIsolated ==
  [][RoutedCommand
       => LET action == Category(lastOp'.op)
              subscribers == Subscribers(action)
          IN \A i \in 1 .. Len(subscribers) :
               ~Throws(subscribers[i])
                 => subscribers[i] \in DeliveredTo(emitted', action)]_vars

\* C22: every outbound command of a category is delivered to exactly the
\* connectors that are registered at that moment and whose listenTo contains
\* that category, in registration order; a connector removed with
\* removeConnector receives no later command and its removal triggers no
\* message to any connector.
C22_RoutedToSubscribers ==
  [][/\ RoutedCommand
          => /\ Targets(emitted', Category(lastOp'.op)) = Subscribers(Category(lastOp'.op))
             /\ \A i \in 1 .. Len(emitted') :
                  emitted'[i].ch = "conn" => emitted'[i].ev = Category(lastOp'.op)
     /\ lastOp'.op = "removeConnector"
          => /\ emitted' = <<>>
             /\ connectors' = SelectSeq(connectors, LAMBDA k : k # lastOp'.who)
     /\ lastOp'.op # "addConnector"
          => \A i \in 1 .. Len(emitted') :
               emitted'[i].ch = "conn"
                 => \E j \in 1 .. Len(connectors) : connectors[j] = emitted'[i].to]_vars

\* C22 happens: with three connectors registered, the first of which listens to
\* prompts only, a dropped file goes to the other two in registration order
C22_Witness ==
  /\ lastOp.op = "dropFile"
  /\ connectors = <<4, 1, 2>>
  /\ Targets(emitted, "drop-file") = <<1, 2>>

\* what addConnector of k replays: the context files, then the conversation
Replayed(k) ==
  (IF "add-file" \in ListenTo(k)
     THEN [i \in 1 .. Len(contextFiles) |->
             [ch |-> "conn", to |-> k, ev |-> "add-file", arg |-> <<contextFiles[i]>>]]
     ELSE <<>>)
  \o
  (IF "add-message" \in ListenTo(k)
     THEN [i \in 1 .. Len(contextMessages) |->
             [ch |-> "conn", to |-> k, ev |-> "add-message",
              arg |-> <<contextMessages[i].role, contextMessages[i].kind,
                        contextMessages[i].n>>]]
     ELSE <<>>)

\* C23: addConnector replays to the newly registered connector, and only to it,
\* one add-file message per file currently in context when it listens for file
\* additions and the full accumulated conversation in order when it listens for
\* message additions; a connector without these interests is replayed nothing.
C23_AddConnectorReplays ==
  [][lastOp'.op = "addConnector"
       => /\ emitted' = Replayed(lastOp'.who)
          /\ connectors' = Append(connectors, lastOp'.who)]_vars

\* C23 happens: a connector that listens to both joins two others when two files
\* and two messages are in the context, and is replayed the four
C23_Witness ==
  /\ lastOp = Op("addConnector", 1)
  /\ Len(connectors) = 3
  /\ Len(contextFiles) = 2
  /\ Len(contextMessages) = 2
  /\ Len(emitted) = 4
  /\ \A i \in 1 .. 4 : emitted[i].to = 1

\* C24: history round-trip: for every sequence of N prompts (including
\* multi-line ones) written with addToInputHistory to an initially empty
\* history, loadInputHistory returns exactly those N prompts, most recent first,
\* each equal to the prompt as written with its embedded newlines preserved.
C24_HistoryRoundTrip ==
  lastOp.op = "loadInputHistory" => loaded = reverse(written)

\* the prompt neither begins nor ends with white space
Trimmed(message) ==
  message = <<>> \/ (message[1] \notin WhiteSpace /\ message[Len(message)] \notin WhiteSpace)

\* the round trip holds for the prompts that neither begin nor end with white space
TrimmedRoundTrip ==
  (lastOp.op = "loadInputHistory" /\ \A i \in 1 .. Len(written) : Trimmed(written[i]))
    => loaded = reverse(written)

\* two prompts, one of them of two lines, were written and read back as written
TrimmedRoundTripWitness ==
  /\ lastOp.op = "loadInputHistory"
  /\ written = <<<<"a", "\n", "+">>, <<"#", " ", "a">>>>
  /\ loaded = <<<<"#", " ", "a">>, <<"a", "\n", "+">>>>

\* C25: interruptResponse routes an interrupt command to the connectors
\* subscribed to it and signals the agent to cancel, and leaves currentPromptId,
\* the accumulated fragments, the open question and runPromptResolves
\* unchanged: it resolves no waiter itself.
C25_InterruptResolvesNothing ==
  [][lastOp'.op = "interruptResponse"
       => /\ Targets(emitted', "interrupt-response") = Subscribers("interrupt-response")
          /\ Len(EventsOf(emitted', "agent", "interrupt")) = 1
          /\ \A i \in 1 .. Len(emitted') : emitted'[i].ch # "resume"
          /\ UNCHANGED <<currentPromptId, currentPromptResponses, currentQuestion,
                         currentQuestionPromiseResolve, runPromptResolves,
                         callers, askers>>]_vars

\* C25 happens: an interrupt reached the connector while a prompt ran with a
\* fragment gathered, a second caller queued and a question open
C25_Witness ==
  /\ lastOp.op = "interruptResponse"
  /\ Targets(emitted, "interrupt-response") = <<1>>
  /\ currentPromptId # 0
  /\ currentPromptResponses # <<>>
  /\ currentQuestion # 0
  /\ currentQuestionPromiseResolve # 0
  /\ Len(runPromptResolves) = 2

\* C26: after promptFinished returns the project is Idle: currentPromptId is
\* null, the accumulated fragment list is empty, no command-output capture is
\* open, no response-message id is pending and runPromptResolves is empty;
\* promptFinished sends a 'response-completed' UI event only if a
\* response-message id was pending when it was called.
C26_FinishLeavesIdle ==
  [][lastOp'.op = "promptFinished"
       => /\ currentPromptId' = 0
          /\ currentPromptResponses' = <<>>
          /\ currentCommand' = Null
          /\ currentResponseMessageId' = 0
          /\ runPromptResolves' = <<>>
          /\ EventsOf(emitted', "ui", "response-completed") =
               IF currentResponseMessageId # 0
                 THEN <<[ch |-> "ui", to |-> 0, ev |-> "response-completed",
                         arg |-> <<currentResponseMessageId>>]>>
                 ELSE <<>>]_vars

\* C26 happens: promptFinished ended a prompt with a chunk pending and a second
\* caller queued
C26_Witness ==
  /\ lastOp.op = "promptFinished"
  /\ EventsOf(emitted, "ui", "response-completed") # <<>>
  /\ \E c \in Callers : callers[c].pc = "done" /\ callers[c].endedBy = "finish"
  /\ \E c \in Callers : callers[c].pc = "append" /\ callers[c].queued
  /\ currentPromptId = 0 /\ currentCommand = Null /\ runPromptResolves = <<>>

\* C27: an unfinished response chunk emits one 'response-chunk' UI event and
\* leaves the accumulated fragment list and the conversation unchanged; a
\* response-message id is allocated on the first chunk when none exists and is
\* reused by every following chunk until a finished event, which appends
\* exactly one fragment to the accumulated list, emits one 'response-completed'
\* event, closes any open command capture and clears the id.
C27_ChunksShareAnId ==
  [][/\ lastOp'.op = "responseChunk"
          => /\ emitted' = <<[ch |-> "ui", to |-> 0, ev |-> "response-chunk",
                              arg |-> <<currentResponseMessageId'>>]>>
             /\ UNCHANGED <<currentPromptResponses, contextMessages>>
             /\ currentResponseMessageId' # 0
             /\ currentResponseMessageId # 0
                  => currentResponseMessageId' = currentResponseMessageId
             /\ currentResponseMessageId = 0
                  => /\ ids'.response = ids.response + 1
                     /\ currentResponseMessageId' = ids'.response
     /\ lastOp'.op = "responseCompleted"
          => /\ Len(currentPromptResponses') = Len(currentPromptResponses) + 1
             /\ SubSeq(currentPromptResponses', 1, Len(currentPromptResponses))
                  = currentPromptResponses
             /\ Len(EventsOf(emitted', "ui", "response-completed")) = 1
             /\ currentResponseMessageId # 0
                  => /\ emitted'[1].arg = <<currentResponseMessageId>>
                     /\ ids' = ids
             /\ currentCommand' = Null
             /\ currentResponseMessageId' = 0]_vars

\* C27 happens: a completed response of a running prompt carries the id the first
\* chunk was given, and is the one fragment gathered
C27_Witness ==
  /\ lastOp.op = "responseCompleted"
  /\ currentPromptResponses = <<ids.response>>
  /\ emitted[1].arg = <<ids.response>>
  /\ ids.response = 1
  /\ currentResponseMessageId = 0
  /\ currentPromptId # 0
  /\ contextMessages = <<>>
  /\ currentCommand = Null
  /\ ActiveCallers # {}

\* C28: openCommandOutput(name) makes name the current command, resets name's
\* buffer to empty even if it held earlier output, and emits exactly one
\* 'command-output' event with empty output; worker stdout arriving while no
\* command is open changes no buffer and emits no 'command-output' event.
C28_OpenResetsBuffer ==
  [][/\ \A command \in Commands :
          (lastOp'.op = "openCommandOutput" /\ OpenCommandOutput(command))
            => /\ currentCommand' = command
               /\ DOMAIN commandOutputs' = DOMAIN commandOutputs \cup {command}
               /\ commandOutputs'[command] = <<>>
               /\ \A other \in DOMAIN commandOutputs \ {command} :
                    commandOutputs'[other] = commandOutputs[other]
               /\ emitted' = <<[ch |-> "ui", to |-> 0, ev |-> "command-output",
                                arg |-> <<command>>]>>
     /\ (lastOp'.op = "stdout" /\ currentCommand = Null)
          => /\ commandOutputs' = commandOutputs
             /\ emitted' = <<>>]_vars

\* C28 happens: a command is opened while the buffer of another holds output
C28_Witness ==
  /\ lastOp.op = "openCommandOutput"
  /\ currentCommand = "run"
  /\ DOMAIN commandOutputs = {"test", "run"}
  /\ commandOutputs["run"] = <<>>
  /\ commandOutputs["test"] = <<"x">>

\* the other case of C28 happens: the worker printed while no command was open
StdoutIgnored ==
  /\ lastOp.op = "stdout"
  /\ currentCommand = Null
  /\ stdoutSinceOpen # <<>>
  /\ commandOutputs = <<>>

\* C29: a failure while reading, parsing or killing the process named by a
\* stale liveness marker does not prevent startup: runAider still spawns the
\* new worker; when no marker file exists no kill is attempted and nothing is
\* reported as an error.
C29_CleanupFailureNotFatal ==
  [][\A t \in TaskIds, outcome \in CleanupOutcomes :
       (tasks[t].pc = "pidfile" /\ PidFileChecked(t, outcome))
         => /\ spawned' = spawned + 1
            /\ process' = spawned'
            /\ process' \in live'
            /\ tasks'[t] = FreeTask
            /\ outcome # "ok" => Len(EventsOf(emitted', "logger", "error")) = 1
            /\ pidFile = 0 => emitted' = <<>>]_vars

\* C29 happens: a start found the marker of an earlier worker, could not kill the
\* process it names, and spawned the new worker all the same
C29_Witness ==
  /\ lastOp.op = "spawn"
  /\ EventsOf(emitted, "os", "treeKill") # <<>>
  /\ EventsOf(emitted, "logger", "error") # <<>>
  /\ pidFile # 0
  /\ pidFile \in live
  /\ process = spawned /\ process \in live /\ process # pidFile

\* the other case of C29 happens: a start found no marker and spawned the worker
SpawnedWithoutMarker ==
  /\ lastOp.op = "spawn"
  /\ emitted = <<>>
  /\ process = spawned /\ process \in live

\* the argument is a model flag: '--model' or '--model=...'
ModelFlag(arg) ==
  arg # <<>> /\ arg[1] = "--model" /\ (Len(arg) = 1 \/ arg[2] = "=")

\* the user's options in the argument vector: what stands between '-m connector'
\* and the fixed flags
UserArgs == SubSeq(args, 3, Len(args) - 4)

\* C30: for every user options string, the worker's argument vector contains no
\* user-supplied model flag nor its value, and the orchestrator's own
\* '--model <mainModel>' pair appears after all user options, so the
\* orchestrator's model selection always takes precedence.
C30_UserModelStripped ==
  lastOp.op = "spawn"
    => /\ \A i \in 1 .. Len(UserArgs) : ~ModelFlag(UserArgs[i])
       /\ SubSeq(args, Len(args) - 1, Len(args)) = <<<<"--model">>, MainModel>>
       /\ SubSeq(args, 1, 2) = <<<<"-m">>, <<"connector">>>>

\* the options hold neither a quote nor an equals sign
PlainOptions == \A i \in 1 .. Len(options) : options[i] \notin {"\"", "="}

\* for options without quotes and equals signs no model flag is left, and the
\* model of the project comes last
PlainModelStripped ==
  (lastOp.op = "spawn" /\ PlainOptions)
    => /\ \A i \in 1 .. Len(UserArgs) : ~ModelFlag(UserArgs[i])
       /\ SubSeq(args, Len(args) - 1, Len(args)) = <<<<"--model">>, MainModel>>

\* the worker was started with the options 'x --model x': the flag and its value
\* are gone and the other option is kept
PlainModelStrippedWitness ==
  /\ lastOp.op = "spawn"
  /\ options = <<"x", " ", "--model", " ", "x">>
  /\ UserArgs = <<<<"x">>>>

\* the tracked paths that are not the path of a context file, in the order tracked
TrackedOutsideContext ==
  SelectSeq(allTrackedFiles,
            LAMBDA file : \A i \in 1 .. Len(contextFiles) :
                            FilePath(contextFiles[i]) # file)

\* C31: getAddableFiles returns exactly the tracked files that are not in the
\* context and that match the search pattern (all of them when no pattern or an
\* empty one is given); with an invalid pattern it does not throw and returns
\* all tracked files that are not in the context
C31_AddableFiles ==
  [][\A searchRegex \in Patterns \cup {NoPattern} :
       (lastOp'.op = "getAddableFiles" /\ GetAddableFiles(searchRegex)) =>
         /\ \A i \in 1 .. Len(emitted') : emitted'[i].ch # "throw"
         /\ addable' =
              IF searchRegex \in {NoPattern, <<>>} \/ InvalidRegex(searchRegex)
                THEN TrackedOutsideContext
                ELSE SelectSeq(TrackedOutsideContext,
                               LAMBDA file : RegexTest(searchRegex, file))]_vars

\* C31 witness: with three tracked files of which one is in the context, a search
\* with a valid pattern returned one file, in another case than the pattern's,
\* and left one out
C31_Witness ==
  /\ lastOp.op = "getAddableFiles"
  /\ Len(allTrackedFiles) = 3
  /\ contextFiles = <<2>>
  /\ addable = <<<<"A", "b">>>>
  /\ emitted = <<>>

\* C31 witness of the error case: a search with an invalid pattern logged the
\* error and returned every tracked file outside the context
InvalidPatternWitness ==
  /\ lastOp.op = "getAddableFiles"
  /\ \E i \in 1 .. Len(emitted) : emitted[i].ch = "logger"
  /\ Len(allTrackedFiles) = 3
  /\ Len(contextFiles) = 1
  /\ Len(addable) = 2

\* C32: in every reachable state, if currentPromptId is null then
\* runPromptResolves is empty: no caller is suspended on a prompt while no unit
\* is active
C32_IdleHasNoWaiters == currentPromptId = 0 => runPromptResolves = <<>>

\* the worker was stopped (killAider resolved) or start() ran in the last turn
\* while asker a was suspended
StoppedWhileAsking(a) ==
  /\ lastOp.op \in {"killSucceeded", "start"}
  /\ askers[a].pc = "waiting"

\* C33: when the worker is stopped or restarted while an askQuestion promise is
\* suspended, that promise is eventually resolved
C33_StoppedAskerResolved ==
  \A a \in Askers : StoppedWhileAsking(a) ~> (askers[a].pc # "waiting")

\* C34: in every reachable state currentQuestion is non-null exactly when an
\* askQuestion waiter is stored (currentQuestionPromiseResolve is non-null)
C34_QuestionIffWaiter == (currentQuestion # 0) <=> (currentQuestionPromiseResolve # 0)

\* C35: a suspended askQuestion promise is only ever resolved with an answer that
\* was given while its own question was the current question: never in the turn
\* of a later askQuestion (an auto-answer from a remembered answer), and never by
\* an answer given while another question is the current one
C35_ResolvedByOwnAnswer ==
  [][\A a \in AllAskers :
       (askers[a].pc = "waiting" /\ askers'[a].pc = "done")
         => /\ lastOp'.op # "askQuestion"
            /\ currentQuestion = askers[a].question]_vars

\* caller c is suspended on a resolver of runPromptResolves
Suspended(c) == callers[c].pc \in {"active", "queued"}

\* C36: after a kill attempt has failed, a later close() still resolves the
\* prompt waiters that were pending at the time of the failure and clears the
\* per-run state: so does the close() called next after the failure, which
\* finds no worker and ends in its turn
C36_FailedKillRecovered ==
  [][\A c \in Callers :
       (lastOp.op = "killFailed" /\ Suspended(c) /\ lastOp'.op = "close")
         => /\ callers'[c].pc \notin {"active", "queued"}
            /\ currentPromptId' = 0
            /\ currentPromptResponses' = <<>>]_vars

\* close() ran to its end in the last turn: it found no worker to stop
CloseEnded == lastOp.op = "close" /\ process = 0

\* C37: once close() has completed, no worker process is running for the project
\* (isStarted() is false and no process is spawned) until the next start(), even
\* when close() is called while an earlier start() is still in progress
C37_NoWorkerAfterClose ==
  [][(CloseEnded /\ lastOp'.op # "start")
       => /\ process' = 0
          /\ spawned' = spawned]_vars

\* C38: in every reachable state the command-output buffer map holds at most
\* one entry and only for the current command
C38_OneBufferOfCurrentCommand ==
  /\ Cardinality(DOMAIN commandOutputs) <= 1
  /\ \A command \in DOMAIN commandOutputs : command = currentCommand

\* caller c, in agent mode, ran in the last turn
AgentTurn(c) ==
  /\ lastOp'.op \in {"runPrompt", "historyAppended", "runAgent", "agentReturned"}
  /\ lastOp'.who = c
  /\ callers'[c].mode = "agent"

\* C39: a runPrompt call in agent mode never routes a 'prompt' command to
\* connectors, never sets currentPromptId or adds a resolver to
\* runPromptResolves once it proceeds (it adds one only to wait for a running
\* prompt), and returns an empty list
C39_AgentSendsNoPrompt ==
  [][\A c \in Callers :
       AgentTurn(c)
         => /\ EventsOf(emitted', "conn", "prompt") = <<>>
            /\ currentPromptId' = currentPromptId
            /\ ids'.prompt = ids.prompt
            /\ callers'[c].pc # "queued" => runPromptResolves' = runPromptResolves
            /\ callers'[c].pc \notin {"active"}
            /\ callers'[c].pc = "done" => callers'[c].result = <<>>]_vars

\* C39 witness: a prompt in agent mode waited for a running prompt, went on, ran
\* the agent, which returned a message that was sent to a connector, and
\* returned
C39_Witness ==
  /\ lastOp.op = "agentReturned"
  /\ callers[lastOp.who].queued
  /\ callers[lastOp.who].pc = "done"
  /\ EventsOf(emitted, "conn", "add-message") # <<>>

\* the identity of question q: its explicit key, or its text and subject when it
\* has no key
Identity(q) ==
  LET question == QuestionData(q)
  IN IF question.key # <<>>
       THEN <<"key", question.key>>
       ELSE <<"text", question.text, question.subject>>

\* C40: two questions with different identities never share a remembered
\* answer: an askQuestion that returns a remembered answer follows a question
\* of the same identity
C40_AnswerOfSameIdentity ==
  [][\A a \in Askers :
       (lastOp'.op = "askQuestion" /\ lastOp'.who = a /\ askers'[a].pc = "done")
         => \E b \in Askers \ {a} :
              /\ askers[b].question # 0
              /\ Identity(askers[b].question) = Identity(askers'[a].question)]_vars
=============================================================================
